---- MODULE Spec2Model ----
(***************************************************************************)
(* Model of the legal-analysis backend (Backend/main.py, tasks.py,         *)
(* agents.py).  One request of run_legal_crew is followed from the         *)
(* classifier call, through label extraction and the assembly of the task  *)
(* graph, to the execution of the analysis crew.                           *)
(*                                                                         *)
(* Classifier output is a short sequence of tokens.  Each token stands for *)
(* a piece of text; what matters of it is which words it spells, whether   *)
(* it holds a brace, and whether it is a member of a JSON object.          *)
(***************************************************************************)
EXTENDS Integers, Sequences, FiniteSets, TLC

VARIABLES pc, error, result, case_type, built, all_agents, all_tasks,
          idx, futures, status, attempt, output, dispatched, final_report,
          input, completion,
          cache, stats, now, ticks, last, reqs,
          generated_text, request_type, formatted, normalized, precedent

vars == <<pc, error, result, case_type, built, all_agents, all_tasks,
          idx, futures, status, attempt, output, dispatched, final_report,
          input, completion,
          cache, stats, now, ticks, last, reqs,
          generated_text, request_type, formatted, normalized, precedent>>

(* Longest classifier output considered, in tokens. *)
MaxTokens == 4

(* generate(..., max_retries: int = 1) *)
max_retries == 1

(* Most get and set calls on the cache, and most advances of the clock. *)
MaxOps == 3
MaxTicks == 2

(* Longest generated text considered, in pieces. *)
MaxPieces == 4

(* CacheService(default_ttl=3600), the global cache instance *)
default_ttl == 3600

-----------------------------------------------------------------------------
(* Classifier output text *)

LB == "{"
RB == "}"

(* JSON members  "classification": <value>  and the value each one carries. *)
ClassificationMembers ==
    {"\"classification\": \"civil\"", "\"classification\": \"criminal\"",
     "\"classification\": \"Criminal\"", "\"classification\": 5"}

(* The value json.loads gives the classification key of a member; the      *)
(* integer 5 is written "int 5" to keep it apart from every string.        *)
MemberValue(tok) ==
    CASE tok = "\"classification\": \"civil\""    -> "civil"
      [] tok = "\"classification\": \"criminal\"" -> "criminal"
      [] tok = "\"classification\": \"Criminal\"" -> "Criminal"
      [] tok = "\"classification\": 5"            -> "int 5"

NonStringValues == {"int 5"}

(* A member whose value, not its key, is the string "classification". *)
OtherMember == "\"type\": \"classification\""

(* A member whose value is a nested object that mentions the other label. *)
NestedMember == "\"alternative_considerations\": {\"note\": \"could be criminal\"}"

(* Texts of braces, members and the prose words civil, Criminal, matter. *)
Texts ==
    LET Tokens == {LB, RB} \cup ClassificationMembers \cup {OtherMember, NestedMember}
                      \cup {"civil", "Criminal", "matter"}
    IN  UNION {[1..n -> Tokens] : n \in 0..MaxTokens}

(* The words a token spells, as written. *)
WordsOf(tok) ==
    CASE tok \in {LB, RB}                                -> {}
      [] tok = "\"classification\": \"civil\""           -> {"\"classification\"", "civil"}
      [] tok = "\"classification\": \"criminal\""        -> {"\"classification\"", "criminal"}
      [] tok = "\"classification\": \"Criminal\""        -> {"\"classification\"", "Criminal"}
      [] tok = "\"classification\": 5"                   -> {"\"classification\""}
      [] tok = OtherMember                               -> {"type", "\"classification\""}
      [] tok = NestedMember                              -> {"alternative_considerations", "note", "could", "be", "criminal"}
      [] OTHER                                           -> {tok}

(* str.lower() on one word. *)
lower(w) == IF w = "Criminal" THEN "criminal" ELSE w

(* key in result.lower(): a substring test on the lower-cased text. *)
InLower(key, text) ==
    \E i \in 1..Len(text) : \E w \in WordsOf(text[i]) : lower(w) = key

(* The same test on the text as written (case-sensitive). *)
InLowerCaseSensitive(key, text) ==
    \E i \in 1..Len(text) : \E w \in WordsOf(text[i]) : w = key

(* The keyword tier without the lower-casing of line 194. *)
KeywordLabelCaseSensitive(text) ==
    IF InLowerCaseSensitive("criminal", text) THEN "criminal"
    ELSE IF InLowerCaseSensitive("civil", text) THEN "civil"
    ELSE "civil"

(* Lines 193-198: the keyword tier. *)
KeywordLabel(text) ==
    IF InLower("criminal", text) THEN "criminal"
    ELSE IF InLower("civil", text) THEN "civil"
    ELSE "civil"

(* re.search(r'\{[^{}]*"classification"[^{}]*\}', result): the span <<i, j>>  *)
(* of the leftmost match, or <<>> when there is none.  A match opens at a  *)
(* "{" token, runs over tokens without a brace character (the nested       *)
(* member holds one) that spell "classification" in quotes, and closes at  *)
(* the first brace after it, which must be "}".                            *)
MatchesAt(text, i) ==
    /\ text[i] = LB
    /\ \E j \in (i+1)..Len(text) :
          /\ text[j] = RB
          /\ \A k \in (i+1)..(j-1) : text[k] \notin {LB, RB, NestedMember}
          /\ \E k \in (i+1)..(j-1) : "\"classification\"" \in WordsOf(text[k])

json_match(text) ==
    IF \E i \in 1..Len(text) : MatchesAt(text, i)
    THEN LET i == CHOOSE i \in 1..Len(text) :
                     MatchesAt(text, i) /\ \A h \in 1..(i-1) : ~MatchesAt(text, h)
             j == CHOOSE j \in (i+1)..Len(text) :
                     text[j] = RB /\ \A k \in (i+1)..(j-1) : text[k] # RB
         IN  <<i, j>>
    ELSE <<>>

(* json.loads(json_match.group()): the span parses when everything between *)
(* its braces is a member; the result is given as the set of positions of  *)
(* its classification members (empty: the key is absent), or "invalid".    *)
IsMember(tok) == tok \in ClassificationMembers \cup {OtherMember, NestedMember}

json_loads_ok(text, span) ==
    \A k \in (span[1]+1)..(span[2]-1) : IsMember(text[k])

(* parsed.get("classification", default): a repeated key keeps its last value. *)
parsed_get(text, span, default) ==
    LET ks == {k \in (span[1]+1)..(span[2]-1) : text[k] \in ClassificationMembers}
    IN  IF ks = {} THEN default
        ELSE MemberValue(text[CHOOSE k \in ks : \A h \in ks : h <= k])

(* Lines 193-207: label extraction of run_legal_crew. *)
ExtractLabel(text) ==
    LET kw   == KeywordLabel(text)
        span == json_match(text)
    IN  IF span # <<>> /\ json_loads_ok(text, span)
        THEN parsed_get(text, span, kw)
        ELSE kw

(* AIService._extract_classification (ai_service.py 79-86): the keyword   *)
(* search alone, applied to raw output.                                    *)
AIService_extract_classification(raw_output) ==
    IF InLower("criminal", raw_output) THEN "criminal"
    ELSE IF InLower("civil", raw_output) THEN "civil"
    ELSE "civil"

-----------------------------------------------------------------------------
(* Agents and task builders (agents.py 548-550, tasks.py) *)

CIVIL_AGENTS    == <<"civil_fact_interpreter", "civil_law_mapper", "civil_precedent_finder">>
CRIMINAL_AGENTS == <<"criminal_fact_interpreter", "criminal_law_mapper", "criminal_precedent_finder">>
SHARED_AGENTS   == <<"constitutional_validator", "legal_pathway_advisor", "report_synthesizer">>

Range(s) == {s[i] : i \in 1..Len(s)}

(* A Task: the agent it is given to (which also names the task), its       *)
(* context list and its async_execution flag (False unless set).           *)
Task(agent) == [agent |-> agent, context |-> <<>>, async_execution |-> FALSE]

create_civil_tasks    == [i \in 1..3 |-> Task(CIVIL_AGENTS[i])]
create_criminal_tasks == [i \in 1..3 |-> Task(CRIMINAL_AGENTS[i])]

(* create_shared_tasks(track_output, case_type): the lookup on line 174    *)
(* raises KeyError for a case_type that is no key of                      *)
(* KB["constitutional_principles"] in data/legal_knowledge_base.json.      *)
create_shared_tasks_raises(ct) == ct \notin {"civil", "criminal"}

create_shared_tasks == [i \in 1..3 |-> Task(SHARED_AGENTS[i])]

(* A selection that adds the criminal track to the civil one instead of   *)
(* replacing it.                                                           *)
SelectBoth(ct) ==
    IF ct = "civil"
    THEN [builders |-> {"create_civil_tasks"}, agents |-> CIVIL_AGENTS, tasks |-> create_civil_tasks]
    ELSE [builders |-> {"create_civil_tasks", "create_criminal_tasks"},
          agents |-> CIVIL_AGENTS \o CRIMINAL_AGENTS,
          tasks |-> create_civil_tasks \o create_criminal_tasks]

(* Lines 228-233: the track selected by the label. *)
SelectTrack(ct) ==
    IF ct = "civil"
    THEN [builders |-> {"create_civil_tasks"}, agents |-> CIVIL_AGENTS, tasks |-> create_civil_tasks]
    ELSE [builders |-> {"create_criminal_tasks"}, agents |-> CRIMINAL_AGENTS, tasks |-> create_criminal_tasks]

(* Track wiring with the Law Mapper's context taken from the wrong index:  *)
(* it names the Precedent Finder, a later task that itself names it.       *)
WireTrackWrongIndex(tt) ==
    LET t2 == IF Len(tt) >= 3
              THEN [tt EXCEPT ![2].context = <<tt[3].agent>>]
              ELSE tt
    IN  IF Len(t2) >= 3
        THEN [t2 EXCEPT ![3].context = <<t2[1].agent, t2[2].agent>>,
                        ![3].async_execution = TRUE]
        ELSE t2

(* Lines 236-240: context of the track tasks. *)
WireTrack(tt) ==
    LET t2 == IF Len(tt) >= 2
              THEN [tt EXCEPT ![2].context = <<tt[1].agent>>]
              ELSE tt
    IN  IF Len(t2) >= 3
        THEN [t2 EXCEPT ![3].context = <<t2[1].agent, t2[2].agent>>,
                        ![3].async_execution = TRUE]
        ELSE t2

(* Shared wiring that leaves the Constitutional Validator synchronous. *)
WireSharedValidatorSync(st, tt) ==
    LET s1 == IF Len(st) >= 1
              THEN [st EXCEPT ![1].context = <<tt[1].agent, tt[2].agent>>]
              ELSE st
        s2 == IF Len(s1) >= 2
              THEN [s1 EXCEPT ![2].context = <<s1[1].agent, tt[2].agent>>]
              ELSE s1
    IN  IF Len(s2) >= 3
        THEN [s2 EXCEPT ![3].context =
                 [i \in 1..Len(tt) |-> tt[i].agent] \o <<s2[1].agent, s2[2].agent>>]
        ELSE s2

(* Shared wiring that gives the Report Synthesizer the track tasks only. *)
WireSharedTrackOnly(st, tt) ==
    LET s1 == IF Len(st) >= 1
              THEN [st EXCEPT ![1].context = <<tt[1].agent, tt[2].agent>>,
                              ![1].async_execution = TRUE]
              ELSE st
        s2 == IF Len(s1) >= 2
              THEN [s1 EXCEPT ![2].context = <<s1[1].agent, tt[2].agent>>]
              ELSE s1
    IN  IF Len(s2) >= 3
        THEN [s2 EXCEPT ![3].context = [i \in 1..Len(tt) |-> tt[i].agent]]
        ELSE s2

(* Lines 247-258: context of the shared tasks. *)
WireShared(st, tt) ==
    LET s1 == IF Len(st) >= 1
              THEN [st EXCEPT ![1].context = <<tt[1].agent, tt[2].agent>>,
                              ![1].async_execution = TRUE]
              ELSE st
        s2 == IF Len(s1) >= 2
              THEN [s1 EXCEPT ![2].context = <<s1[1].agent, tt[2].agent>>]
              ELSE s1
    IN  IF Len(s2) >= 3
        THEN [s2 EXCEPT ![3].context =
                 [i \in 1..Len(tt) |-> tt[i].agent] \o <<s2[1].agent, s2[2].agent>>]
        ELSE s2

(* Lines 261-262: the crew's agents and tasks. *)
AssembleAgents(ct) == SelectTrack(ct).agents \o SHARED_AGENTS

AssembleTasks(ct) ==
    LET tt == WireTrack(SelectTrack(ct).tasks)
    IN  tt \o WireShared(create_shared_tasks, tt)

-----------------------------------------------------------------------------
(* State *)

TaskIds == Range(CIVIL_AGENTS) \cup Range(CRIMINAL_AGENTS) \cup Range(SHARED_AGENTS)

(* The requests followed through AIService, and one not yet made. *)
Requests == {"r1", "r2"}

Init ==
    /\ pc = "start"
    /\ error = "none"
    /\ result = <<>>
    /\ case_type = "civil"
    /\ built = {}
    /\ all_agents = <<>>
    /\ all_tasks = <<>>
    /\ idx = 0
    /\ futures = <<>>
    /\ status = [t \in TaskIds |-> "pending"]
    /\ attempt = [t \in TaskIds |-> 0]
    /\ output = [t \in TaskIds |-> "none"]
    /\ dispatched = {}
    /\ final_report = "none"
    /\ input = [t \in TaskIds |-> <<>>]
    /\ completion = <<>>
    /\ cache = [k \in {} |-> {}]
    /\ stats = [hits |-> 0, misses |-> 0, sets |-> 0, evictions |-> 0]
    /\ now = 0
    /\ ticks = 0
    /\ last = [name |-> "init", key |-> "", data |-> {}, ttl |-> {}, ret |-> {}, at |-> 0]
    /\ reqs = [r \in Requests |->
                  [pc |-> "idle", task |-> "", case |-> "", looked |-> {}, invoked |-> 0,
                   kind |-> "", value |-> {}]]
    /\ generated_text = <<>>
    /\ request_type = ""
    /\ formatted = {}
    /\ normalized = {}
    /\ precedent = {}

crewVars == <<idx, futures, status, attempt, output, dispatched, final_report, input, completion>>
graphVars == <<built, all_agents, all_tasks>>
formatVars == <<generated_text, request_type, formatted, normalized, precedent>>

-----------------------------------------------------------------------------
(* run_legal_crew, step 1: classification (lines 186-211) *)

(* classifier_crew.kickoff() returns text; the label is extracted from it. *)
Classify ==
    /\ pc = "start"
    /\ \E txt \in Texts :
          /\ result' = txt
          /\ case_type' = ExtractLabel(txt)
    /\ pc' = "classified"
    /\ UNCHANGED <<error, graphVars, crewVars>>
    /\ UNCHANGED <<cache, stats, now, ticks, last, reqs, formatVars>>

(* classifier_crew.kickoff() raises: logged and re-raised (lines 208-210). *)
ClassifierRaise ==
    /\ pc = "start"
    /\ pc' = "raised"
    /\ error' = "ClassifierFailed"
    /\ UNCHANGED <<result, case_type, graphVars, crewVars>>
    /\ UNCHANGED <<cache, stats, now, ticks, last, reqs, formatVars>>

(* run_legal_crew, steps 2 and 3: assembling the graph (lines 212-264) *)

(* Line 219, case_type.upper(): a label that is no string has no upper(). *)
LabelNotString ==
    /\ pc = "classified"
    /\ case_type \in NonStringValues
    /\ pc' = "raised"
    /\ error' = "AttributeError"
    /\ result' = <<>>
    /\ UNCHANGED <<case_type, graphVars, crewVars>>
    /\ UNCHANGED <<cache, stats, now, ticks, last, reqs, formatVars>>

(* Line 244: create_shared_tasks raises after the track tasks were created. *)
SharedTasksKeyError ==
    /\ pc = "classified"
    /\ case_type \notin NonStringValues
    /\ create_shared_tasks_raises(case_type)
    /\ built' = SelectTrack(case_type).builders \cup {"create_shared_tasks"}
    /\ pc' = "raised"
    /\ error' = "KeyError"
    /\ result' = <<>>
    /\ UNCHANGED <<case_type, all_agents, all_tasks, crewVars>>
    /\ UNCHANGED <<cache, stats, now, ticks, last, reqs, formatVars>>

BuildGraph ==
    /\ pc = "classified"
    /\ case_type \notin NonStringValues
    /\ ~create_shared_tasks_raises(case_type)
    /\ built' = SelectTrack(case_type).builders \cup {"create_shared_tasks"}
    /\ all_agents' = AssembleAgents(case_type)
    /\ all_tasks' = AssembleTasks(case_type)
    /\ idx' = 1
    /\ pc' = "analysis"
    /\ result' = <<>>
    /\ UNCHANGED <<error, case_type, futures, status, attempt, output, dispatched, final_report,
                   input, completion>>
    /\ UNCHANGED <<cache, stats, now, ticks, last, reqs, formatVars>>

-----------------------------------------------------------------------------
(* run_legal_crew, analysis_crew.kickoff() (lines 264-270).                *)
(* The crew walks all_tasks in list order.  A task flagged async_execution *)
(* is started and the walk goes on; a task not so flagged is started only  *)
(* once every started async task has returned, and the walk waits for it.  *)
(* Each task makes its agent call OllamaLLM.call, that is generate().      *)

TaskAt(i) == all_tasks[i]

AsyncDone == \A i \in 1..Len(futures) : status[futures[i]] = "done"

(* The outputs of a task's context tasks in the order they returned. *)
ContextInputByCompletion(task) ==
    LET done == SelectSeq(completion, LAMBDA c : c \in Range(task.context))
    IN  [i \in 1..Len(done) |-> output[done[i]]]

(* The context handed to a task when it starts: the outputs of the tasks   *)
(* of its context list, in the order of that list (main.py 237-258).       *)
ContextInput(task) == [i \in 1..Len(task.context) |-> output[task.context[i]]]

(* An async task is started. *)
DispatchAsync ==
    /\ pc = "analysis"
    /\ idx <= Len(all_tasks)
    /\ TaskAt(idx).async_execution
    /\ LET t == TaskAt(idx).agent
       IN  /\ status' = [status EXCEPT ![t] = "running"]
           /\ futures' = Append(futures, t)
           /\ dispatched' = dispatched \cup {t}
           /\ input' = [input EXCEPT ![t] = ContextInput(TaskAt(idx))]
    /\ idx' = idx + 1
    /\ UNCHANGED <<pc, error, result, case_type, graphVars, attempt, output, final_report, completion>>
    /\ UNCHANGED <<cache, stats, now, ticks, last, reqs, formatVars>>

(* Whether the crew may start the synchronous task at idx: the async     *)
(* tasks started before it have all returned.                              *)
SyncReady == status[TaskAt(idx).agent] = "pending" /\ AsyncDone

(* A synchronous task is started, after the pending async tasks are collected. *)
StartSync ==
    /\ pc = "analysis"
    /\ idx <= Len(all_tasks)
    /\ ~TaskAt(idx).async_execution
    /\ SyncReady
    /\ LET t == TaskAt(idx).agent
       IN  /\ status' = [status EXCEPT ![t] = "running"]
           /\ dispatched' = dispatched \cup {t}
           /\ input' = [input EXCEPT ![t] = ContextInput(TaskAt(idx))]
    /\ futures' = <<>>
    /\ UNCHANGED <<pc, error, result, case_type, graphVars, idx, attempt, output, final_report, completion>>
    /\ UNCHANGED <<cache, stats, now, ticks, last, reqs, formatVars>>

(* The task returns `out`; the walk moves on when it was the awaited one. *)
Return(t, out) ==
    /\ status' = [status EXCEPT ![t] = "done"]
    /\ output' = [output EXCEPT ![t] = out]
    /\ completion' = Append(completion, t)
    /\ idx' = IF idx <= Len(all_tasks) /\ TaskAt(idx).agent = t THEN idx + 1 ELSE idx

(* OllamaLLM.generate (agents.py 108-170), one pass of its attempt loop.   *)
(* The request succeeds: the response text is returned (lines 111-136).    *)
GenerateOk(t) ==
    /\ pc = "analysis"
    /\ status[t] = "running"
    /\ Return(t, "ok")
    /\ UNCHANGED <<pc, error, result, case_type, graphVars, futures, attempt, dispatched, final_report, input>>
    /\ UNCHANGED <<cache, stats, now, ticks, last, reqs, formatVars>>

(* requests.exceptions.Timeout with attempts left: sleep and retry (139-142). *)
GenerateTimeoutRetry(t) ==
    /\ pc = "analysis"
    /\ status[t] = "running"
    /\ attempt[t] < max_retries
    /\ attempt' = [attempt EXCEPT ![t] = attempt[t] + 1]
    /\ UNCHANGED <<pc, error, result, case_type, graphVars, idx, futures, status, output, dispatched, final_report,
                   input, completion>>
    /\ UNCHANGED <<cache, stats, now, ticks, last, reqs, formatVars>>

(* Timeout on the last attempt: the text "Error: LLM timeout ..." is       *)
(* returned as the response (lines 143-154).                               *)
GenerateTimeoutFinal(t) ==
    /\ pc = "analysis"
    /\ status[t] = "running"
    /\ ~(attempt[t] < max_retries)
    /\ Return(t, "Error: LLM timeout")
    /\ UNCHANGED <<pc, error, result, case_type, graphVars, futures, attempt, dispatched, final_report, input>>
    /\ UNCHANGED <<cache, stats, now, ticks, last, reqs, formatVars>>

(* Any other exception, on any attempt: the text "[OLLAMA_ERROR] ..." is   *)
(* returned as the response at once (lines 155-170).                       *)
GenerateError(t) ==
    /\ pc = "analysis"
    /\ status[t] = "running"
    /\ Return(t, "[OLLAMA_ERROR]")
    /\ UNCHANGED <<pc, error, result, case_type, graphVars, futures, attempt, dispatched, final_report, input>>
    /\ UNCHANGED <<cache, stats, now, ticks, last, reqs, formatVars>>

(* The walk is over and the last async tasks are collected: kickoff        *)
(* returns the output of the last task (line 267).                         *)
KickoffReturn ==
    /\ pc = "analysis"
    /\ idx = Len(all_tasks) + 1
    /\ AsyncDone
    /\ final_report' = output[TaskAt(Len(all_tasks)).agent]
    /\ pc' = "done"
    /\ UNCHANGED <<error, result, case_type, graphVars, idx, futures, status, attempt, output, dispatched,
                   input, completion>>
    /\ UNCHANGED <<cache, stats, now, ticks, last, reqs, formatVars>>

(* kickoff raises: logged and re-raised (lines 268-270). *)
KickoffRaise ==
    /\ pc = "analysis"
    /\ pc' = "raised"
    /\ error' = "AnalysisFailed"
    /\ UNCHANGED <<result, case_type, graphVars, crewVars>>
    /\ UNCHANGED <<cache, stats, now, ticks, last, reqs, formatVars>>

Next ==
    \/ Classify
    \/ ClassifierRaise
    \/ LabelNotString
    \/ SharedTasksKeyError
    \/ BuildGraph
    \/ DispatchAsync
    \/ StartSync
    \/ \E t \in TaskIds : GenerateOk(t)
    \/ \E t \in TaskIds : GenerateTimeoutRetry(t)
    \/ \E t \in TaskIds : GenerateTimeoutFinal(t)
    \/ \E t \in TaskIds : GenerateError(t)
    \/ KickoffReturn
    \/ KickoffRaise

Spec == Init /\ [][Next]_vars

(* The outcome of a task in the words of the task graph: a task whose      *)
(* generation call ended in a timeout or an error, its retries spent, has  *)
(* failed; one that returned generated text has succeeded.                 *)
FailureTexts == {"Error: LLM timeout", "[OLLAMA_ERROR]"}

TaskStatus(t) ==
    IF status[t] = "done"
    THEN IF output[t] \in FailureTexts THEN "failed" ELSE "succeeded"
    ELSE status[t]

(* The graph's nodes by role: positions in all_tasks. *)
FactInterpreter        == all_tasks[1].agent
LawMapper              == all_tasks[2].agent
PrecedentFinder        == all_tasks[3].agent
ConstitutionalValidator == all_tasks[4].agent
PathwayAdvisor         == all_tasks[5].agent
ReportSynthesizer      == all_tasks[6].agent

Assembled == pc \in {"analysis", "done"} \/ (pc = "raised" /\ error = "AnalysisFailed")

ContextOf(t) == UNION {Range(all_tasks[i].context) : i \in {j \in 1..Len(all_tasks) : all_tasks[j].agent = t}}

-----------------------------------------------------------------------------
(* CacheService (services/cache_service.py)                                *)
(* An optional value is a set: {} is None, {x} is the value x.  A stored   *)
(* value is a dict.                                                        *)

None == {}
Some(x) == {x}
The(opt) == CHOOSE x \in opt : TRUE

(* JSON values.  A value is a record of its type and content: n is the     *)
(* number of an "int" and the number in tenths of a "float", s the text of *)
(* a "str", items the elements of a "list", d the members of a "dict".  A  *)
(* dict is the set of its <<key, value>> members; {} is the empty dict.    *)
Value(type, n, s, items, d) == [type |-> type, n |-> n, s |-> s, items |-> items, d |-> d]
Null == Value("null", 0, "", <<>>, {})
Str(s) == Value("str", 0, s, <<>>, {})
IntV(n) == Value("int", n, "", <<>>, {})
FloatV(tenths) == Value("float", tenths, "", <<>>, {})
ListV(items) == Value("list", 0, "", items, {})
DictV(d) == Value("dict", 0, "", <<>>, d)

Keys(d) == {m[1] : m \in d}

(* d[key] *)
At(d, key) == (CHOOSE m \in d : m[1] = key)[2]

(* d.get(key, default) *)
dict_get(d, key, default) == IF key \in Keys(d) THEN At(d, key) ELSE default

Cases == {"c1"}
CacheKeys == {"full_analysis:c1", "legal_issues:c1"}
CacheData == {{}, {<<"issues", ListV(<<>>)>>, <<"confidence", FloatV(8)>>}}
Delays == {1, 1800}

(* key.startswith(prefix) *)
StartsWith(key, prefix) == \E c \in Cases : key = prefix \o ":" \o c

EmptyCache == [k \in {} |-> {}]

Without(c, ks) == [k \in DOMAIN c \ ks |-> c[k]]

(* entry["expires_at"] < datetime.now() (lines 69 and 137) *)
Expired(entry, t) == entry.expires_at < t

(* get that leaves the expired entry in the store *)
cache_get_keep_expired(c, s, key, t) ==
    IF key \notin DOMAIN c
    THEN [cache |-> c, stats |-> [s EXCEPT !.misses = @ + 1], ret |-> None]
    ELSE IF Expired(c[key], t)
         THEN [cache |-> c,
               stats |-> [s EXCEPT !.evictions = @ + 1, !.misses = @ + 1],
               ret |-> None]
         ELSE [cache |-> c, stats |-> [s EXCEPT !.hits = @ + 1], ret |-> Some(c[key].data)]

(* get that does not count its hits *)
cache_get_uncounted(c, s, key, t) ==
    IF key \notin DOMAIN c
    THEN [cache |-> c, stats |-> [s EXCEPT !.misses = @ + 1], ret |-> None]
    ELSE IF Expired(c[key], t)
         THEN [cache |-> Without(c, {key}),
               stats |-> [s EXCEPT !.evictions = @ + 1, !.misses = @ + 1],
               ret |-> None]
         ELSE [cache |-> c, stats |-> s, ret |-> Some(c[key].data)]

(* get that counts an expired entry as an eviction only *)
cache_get_eviction_only(c, s, key, t) ==
    IF key \notin DOMAIN c
    THEN [cache |-> c, stats |-> [s EXCEPT !.misses = @ + 1], ret |-> None]
    ELSE IF Expired(c[key], t)
         THEN [cache |-> Without(c, {key}),
               stats |-> [s EXCEPT !.evictions = @ + 1],
               ret |-> None]
         ELSE [cache |-> c, stats |-> [s EXCEPT !.hits = @ + 1], ret |-> Some(c[key].data)]

(* get (lines 62-78): the store, the counters and the value returned. *)
cache_get(c, s, key, t) ==
    IF key \notin DOMAIN c
    THEN [cache |-> c, stats |-> [s EXCEPT !.misses = @ + 1], ret |-> None]
    ELSE IF Expired(c[key], t)
         THEN [cache |-> Without(c, {key}),
               stats |-> [s EXCEPT !.evictions = @ + 1, !.misses = @ + 1],
               ret |-> None]
         ELSE [cache |-> c, stats |-> [s EXCEPT !.hits = @ + 1], ret |-> Some(c[key].data)]

(* ttl = ttl or self.default_ttl (line 89): None and 0 are both falsy. *)
EffectiveTtl(ttl) == IF ttl = None \/ ttl = Some(0) THEN default_ttl ELSE The(ttl)

(* set (lines 89-96) *)
cache_set(c, s, key, data, ttl, t) ==
    LET entry == [data |-> data, created_at |-> t, expires_at |-> t + EffectiveTtl(ttl)]
    IN  [cache |-> [k \in DOMAIN c \cup {key} |-> IF k = key THEN entry ELSE c[k]],
         stats |-> [s EXCEPT !.sets = @ + 1]]

(* cleanup_expired (lines 134-138) *)
expired_keys(c, t) == {k \in DOMAIN c : Expired(c[k], t)}

(* get_stats (lines 118-130), without the derived hit rate *)
get_stats(c, s) ==
    [total_entries |-> Cardinality(DOMAIN c), hits |-> s.hits, misses |-> s.misses,
     sets |-> s.sets, evictions |-> s.evictions]

(* The record of a call: its name, arguments, return value and time. *)
Op(name, key, data, ttl, ret) ==
    [name |-> name, key |-> key, data |-> data, ttl |-> ttl, ret |-> ret, at |-> now]

Calls == stats.hits + stats.misses + stats.sets

crewAll == <<pc, error, result, case_type, graphVars, crewVars>>
storeVars == <<cache, stats, now, ticks, last>>

Get(key) ==
    /\ Calls < MaxOps
    /\ LET r == cache_get(cache, stats, key, now)
       IN  /\ cache' = r.cache
           /\ stats' = r.stats
           /\ last' = Op("get", key, None, None, r.ret)
    /\ UNCHANGED <<now, ticks, crewAll, reqs, formatVars>>

Set(key, data, ttl) ==
    /\ Calls < MaxOps
    /\ LET r == cache_set(cache, stats, key, data, ttl, now)
       IN  /\ cache' = r.cache
           /\ stats' = r.stats
    /\ last' = Op("set", key, Some(data), ttl, None)
    /\ UNCHANGED <<now, ticks, crewAll, reqs, formatVars>>

(* invalidate (lines 101-103) *)
Invalidate(key) ==
    /\ cache' = Without(cache, {key})
    /\ last' = Op("invalidate", key, None, None, None)
    /\ UNCHANGED <<stats, now, ticks, crewAll, reqs, formatVars>>

(* invalidate_prefix (lines 107-110) *)
InvalidatePrefix(prefix) ==
    /\ cache' = Without(cache, {k \in DOMAIN cache : StartsWith(k, prefix)})
    /\ last' = Op("invalidate_prefix", prefix, None, None, None)
    /\ UNCHANGED <<stats, now, ticks, crewAll, reqs, formatVars>>

(* clear (lines 114-116) *)
Clear ==
    /\ cache' = EmptyCache
    /\ last' = Op("clear", "", None, None, None)
    /\ UNCHANGED <<stats, now, ticks, crewAll, reqs, formatVars>>

(* cleanup_expired (lines 134-145) *)
CleanupExpired ==
    /\ cache' = Without(cache, expired_keys(cache, now))
    /\ last' = Op("cleanup_expired", "", None, None, Some(Cardinality(expired_keys(cache, now))))
    /\ UNCHANGED <<stats, now, ticks, crewAll, reqs, formatVars>>

(* Time passes between two calls. *)
Advance(d) ==
    /\ ticks < MaxTicks
    /\ now' = now + d
    /\ ticks' = ticks + 1
    /\ UNCHANGED <<cache, stats, last, crewAll, reqs, formatVars>>

CacheNext ==
    \/ \E k \in CacheKeys : Get(k)
    \/ \E k \in CacheKeys, d \in CacheData, ttl \in {None, Some(0), Some(1800)} : Set(k, d, ttl)
    \/ \E k \in CacheKeys : Invalidate(k)
    \/ \E p \in {"full_analysis", "legal_issues", "c1"} : InvalidatePrefix(p)
    \/ Clear
    \/ CleanupExpired
    \/ \E d \in Delays : Advance(d)

CacheSpec == Init /\ [][CacheNext]_vars

-----------------------------------------------------------------------------
(* Generated text, as format_ai_response reads it                          *)
(* (parsers/response_formatter.py).  A text is a sequence of pieces: the   *)
(* opening of a fenced block "```json", a closing "```", prose without     *)
(* braces, a JSON object "{...}" and a braced piece that is not JSON.      *)

Piece(kind, d) == [kind |-> kind, d |-> d]

FenceOpen == Piece("fence_open", {})
FenceClose == Piece("fence_close", {})
Words == Piece("prose", {})
Broken == Piece("braced", {})
Object(d) == Piece("object", d)

(* The objects a text may hold. *)
LegalOk ==
    {<<"identified_issues", ListV(<<Str("issue")>>)>>, <<"confidence_score", FloatV(5)>>,
     <<"note", Str("n")>>}
Report ==
    {<<"classification", Str("Criminal")>>, <<"executiveSummary", Str("summary")>>,
     <<"precedents", ListV(<<DictV({<<"caseName", Str("State case")>>, <<"year", Str("2019")>>})>>)>>}
ReportYearUnknown ==
    {<<"classification", Str("civil")>>,
     <<"precedents", ListV(<<DictV({<<"caseName", Str("State case")>>, <<"year", Str("unknown")>>})>>)>>}

(* ... and a legal-issues object with a confidence of 1.5, a precedents   *)
(* object with a list of cases and one whose cases is a string.            *)
Objects ==
    {LegalOk, Report, ReportYearUnknown,
     {<<"identified_issues", ListV(<<Str("issue")>>)>>, <<"confidence_score", FloatV(15)>>},
     {<<"cases", ListV(<<>>)>>},
     {<<"cases", Str("none found")>>}}

RawTexts ==
    LET Pieces == {FenceOpen, FenceClose, Words, Broken} \cup {Object(d) : d \in Objects}
    IN  UNION {[1..n -> Pieces] : n \in 0..MaxPieces}

(* A piece that starts with "{" and ends with "}". *)
Braced(p) == p.kind \in {"object", "braced"}

Least(S) == CHOOSE i \in S : \A j \in S : i <= j

(* Where a match of ```json\s*(\{.*?\})\s*``` may end when its group       *)
(* starts at piece i: a braced piece followed by a fence, opening or       *)
(* closing (both begin with ```).                                          *)
GroupEnds(raw, i) ==
    {j \in i..(Len(raw) - 1) : Braced(raw[j]) /\ raw[j + 1].kind \in {"fence_open", "fence_close"}}

GroupStarts(raw) ==
    {i \in 2..Len(raw) : raw[i - 1] = FenceOpen /\ Braced(raw[i]) /\ GroupEnds(raw, i) # {}}

(* re.search (lines 28-32): the leftmost match, its group the shortest;   *)
(* the span <<i, j>> of the group, or None.                                *)
fenced_match(raw) ==
    IF GroupStarts(raw) = {}
    THEN None
    ELSE LET i == Least(GroupStarts(raw))
         IN  Some(<<i, Least(GroupEnds(raw, i))>>)

(* Lines 40-42: the pieces from the first "{" to the last "}", or None.    *)
(* Every piece that holds a brace holds both, so json_end > json_start     *)
(* whenever a brace is found.                                              *)
brace_span(raw) ==
    LET B == {i \in 1..Len(raw) : Braced(raw[i])}
    IN  IF B = {} THEN None ELSE Some(<<Least(B), CHOOSE i \in B : \A j \in B : j <= i>>)

(* json.loads of the pieces of a span raises JSONDecodeError unless the    *)
(* span is one JSON object.                                                *)
json_loads_raises(raw, span) == ~(span[1] = span[2] /\ raw[span[1]].kind = "object")

json_loads(raw, span) == raw[span[1]].d

(* validate_response_structure: validators (lines 96-103) *)
RequiredFields(task) ==
    CASE task = "legal_issues" -> {"identified_issues", "confidence_score"}
      [] task = "precedents" -> {"cases"}
      [] task = "arguments" -> {"arguments"}
      [] task = "weaknesses" -> {"weaknesses"}
      [] task = "court_notes" -> {"notes"}
      [] task = "cross_questions" -> {"questions"}
      [] OTHER -> {}

(* isinstance(score, (int, float)) and 0.0 <= score <= 1.0 (line 117) *)
InUnitInterval(v) ==
    \/ v.type = "int" /\ 0 <= v.n /\ v.n <= 1
    \/ v.type = "float" /\ 0 <= v.n /\ v.n <= 10

(* "criminal" in text.lower() *)
HasCriminal(s) == s \in {"criminal", "Criminal"}

(* extract_classification (lines 236-243): the whole text is searched. *)
extract_classification(raw) ==
    IF \E i \in 1..Len(raw) : \E m \in raw[i].d : m[2].type = "str" /\ HasCriminal(m[2].s)
    THEN "criminal" ELSE "civil"

(* The text itself, kept as a string value. *)
RawText == Str("raw_output")

(* One element for a text that is not empty: its only section. *)
Sections(raw, item) == IF raw = <<>> THEN ListV(<<>>) ELSE ListV(<<DictV(item)>>)

(* _fallback_format (lines 62-79) and the format_* functions (127-231).    *)
(* The pieces hold no section header, list bullet, numbered step, case     *)
(* citation or question mark-up, so the patterns for these find nothing.   *)
fallback_format(raw, task) ==
    CASE task = "full_analysis" ->
            {<<"classification", Str(extract_classification(raw))>>,
             <<"executiveSummary", Str("")>>, <<"keyFacts", Str("")>>,
             <<"applicableLaws", ListV(<<>>)>>, <<"precedents", ListV(<<>>)>>,
             <<"constitutionalAspects", Str("")>>, <<"actionPlan", ListV(<<>>)>>,
             <<"timeline", Str("")>>, <<"disclaimers", Str("")>>, <<"rawOutput", RawText>>}
      [] task = "legal_issues" ->
            {<<"issues", ListV(<<RawText>>)>>, <<"confidence", FloatV(8)>>}
      [] task = "precedents" -> {<<"cases", ListV(<<>>)>>}
      [] task = "arguments" ->
            {<<"arguments", Sections(raw, {<<"title", RawText>>, <<"description", RawText>>,
                                           <<"supportingLaw", Str("")>>,
                                           <<"supportingPrecedent", Null>>})>>}
      [] task = "weaknesses" -> {<<"weaknesses", ListV(<<>>)>>}
      [] task = "court_notes" ->
            {<<"notes", Sections(raw, {<<"section", RawText>>, <<"content", RawText>>})>>,
             <<"fullDraft", RawText>>}
      [] task = "cross_questions" -> {<<"questions", ListV(<<>>)>>}
      [] OTHER -> {<<"rawOutput", RawText>>}

(* The error structure of lines 55-59. *)
formatting_failed(message) ==
    {<<"error", Str("formatting_failed")>>, <<"message", Str(message)>>, <<"rawOutput", RawText>>}

Formatted(value, via) == [value |-> value, via |-> via]

(* What format_ai_response does with the object a JSON tier parsed:        *)
(* validate_response_structure raises ValueError (lines 105-122) for a     *)
(* missing field and for a field of the wrong type or range.               *)
Validated(data, task, via) ==
    IF \/ RequiredFields(task) \ Keys(data) # {}
       \/ /\ task = "legal_issues"
          /\ \/ At(data, "identified_issues").type # "list"
             \/ ~InUnitInterval(At(data, "confidence_score"))
       \/ task = "precedents" /\ At(data, "cases").type # "list"
    THEN Formatted(formatting_failed("ValueError"), "error")
    ELSE Formatted(data, via)

(* format_ai_response (lines 26-59): the dict returned and the return      *)
(* statement that gave it: line 36 "fenced", line 46 "braces", line 51     *)
(* "fallback", line 55 "error".                                            *)
format_ai_response(raw, task) ==
    LET m == fenced_match(raw)
        b == brace_span(raw)
    IN  IF m # None
        THEN IF json_loads_raises(raw, The(m))
             THEN Formatted(formatting_failed("JSONDecodeError"), "error")
             ELSE Validated(json_loads(raw, The(m)), task, "fenced")
        ELSE IF b # None /\ ~json_loads_raises(raw, The(b))
             THEN Validated(json_loads(raw, The(b)), task, "braces")
             ELSE Formatted(fallback_format(raw, task), "fallback")

-----------------------------------------------------------------------------
(* The normalization layer (parsers/ai_output_parser.py) *)

FullAnalysisFields ==
    {"classification", "executiveSummary", "keyFacts", "applicableLaws", "precedents",
     "constitutionalAspects", "actionPlan", "timeline", "disclaimers"}

(* normalize_classification (lines 16-32); `not value` holds for None,    *)
(* "", 0 and an empty list or dict.                                        *)
normalize_classification(v) ==
    IF \/ v.type = "null"
       \/ v.type = "str" /\ v.s = ""
       \/ v.type \in {"int", "float"} /\ v.n = 0
       \/ v.type = "list" /\ v.items = <<>>
       \/ v.type = "dict" /\ v.d = {}
    THEN "civil"
    ELSE IF v.type = "str" /\ HasCriminal(v.s) THEN "criminal" ELSE "civil"

(* normalize_string (lines 35-54): always a string. *)
normalize_string(v) ==
    CASE v.type = "str" -> v
      [] v.type = "list" -> IF v.items = <<>> THEN Str("") ELSE Str("joined items")
      [] v.type = "dict" -> Str("json.dumps")
      [] v.type = "null" -> Str("None")
      [] OTHER -> Str("number")

(* The strings int() accepts, and the integers it gives. *)
NumericStrings == {"2019"}
int_of_str(s) == CASE s = "2019" -> 2019

default_year == 2024

(* d.get(key) as an optional value *)
Member(d, key) == IF key \in Keys(d) THEN Some(At(d, key)) ELSE None

(* normalize_precedent_case (lines 86-120) raises: at line 102 int() of a  *)
(* year string that is no numeral raises ValueError.                       *)
precedent_raises(value) ==
    LET year == IF value.type = "dict" THEN Member(value.d, "year") ELSE None
    IN  year # None /\ The(year).type = "str" /\ The(year).s \notin NumericStrings

(* str(value) *)
py_str(v) ==
    CASE v.type = "str"  -> v
      [] v.type = "null" -> Str("None")
      [] OTHER           -> Str("str(value)")

(* A law record that is handed on as it came. *)
law_as_given(value) == IF value.type = "dict" THEN value.d ELSE {}

(* normalize_law_dict (lines 57-83) *)
normalize_law_dict(value) ==
    IF value.type = "dict"
    THEN {<<"act", py_str(dict_get(value.d, "act",
                                   dict_get(value.d, "actName", Str("Unknown Act"))))>>,
          <<"section", py_str(dict_get(value.d, "section",
                                       dict_get(value.d, "sectionNumber", Str(""))))>>,
          <<"description", py_str(dict_get(value.d, "description", Str("")))>>}
    ELSE LET str_value == py_str(value)
             parts == IF str_value.s = "Contract Act - Section 73"
                      THEN <<"Contract Act", "Section 73">>
                      ELSE <<str_value.s>>
         IN  {<<"act", Str(parts[1])>>,
              <<"section", IF Len(parts) > 1 THEN Str(parts[2]) ELSE Str("")>>,
              <<"description", str_value>>}

(* normalize_precedent_case (lines 96-120), when it returns *)
normalize_precedent_case(value) ==
    IF value.type = "dict"
    THEN LET year == Member(value.d, "year")
         IN  {<<"caseName", py_str(dict_get(value.d, "caseName",
                                            dict_get(value.d, "name", Str("Unknown Case"))))>>,
              <<"citation", py_str(dict_get(value.d, "citation", Str("Citation not available")))>>,
              <<"court", py_str(dict_get(value.d, "court", Str("Unknown Court")))>>,
              <<"year", IntV(IF year # None /\ The(year).type = "int" THEN The(year).n
                             ELSE IF year # None /\ The(year).type = "str"
                                  THEN int_of_str(The(year).s)
                                  ELSE default_year)>>,
              <<"headnote", py_str(dict_get(value.d, "headnote", Str("")))>>,
              <<"holding", py_str(dict_get(value.d, "holding", Str("")))>>,
              <<"relevance", py_str(dict_get(value.d, "relevance", Str("Relevant precedent")))>>,
              <<"distinction", dict_get(value.d, "distinction", Null)>>}
    ELSE {<<"caseName", py_str(value)>>, <<"citation", Str("To be determined")>>,
          <<"court", Str("To be researched")>>, <<"year", IntV(default_year)>>,
          <<"headnote", py_str(value)>>, <<"holding", Str("Analysis pending")>>,
          <<"relevance", Str("Requires further research")>>, <<"distinction", Null>>}

(* normalize_action_plan_item (lines 123-145) *)
normalize_action_plan_item(value) ==
    IF value.type = "dict"
    THEN {<<"action", py_str(dict_get(value.d, "action",
                                      dict_get(value.d, "title", Str("str(value)"))))>>,
          <<"priority", py_str(dict_get(value.d, "priority", Str("Medium")))>>,
          <<"timeline", py_str(dict_get(value.d, "timeline", Str("To be determined")))>>}
    ELSE {<<"action", py_str(value)>>, <<"priority", Str("Medium")>>,
          <<"timeline", Str("To be determined")>>}

(* The elements of result.get(key, []) when that is a list, else none. *)
ListItems(res, key) ==
    IF key \in Keys(res) /\ At(res, key).type = "list" THEN At(res, key).items ELSE <<>>

(* parse_full_analysis_response (lines 165-192) raises: one of the         *)
(* precedent records does.                                                 *)
parse_raises(res) ==
    \E i \in 1..Len(ListItems(res, "precedents")) :
        precedent_raises(ListItems(res, "precedents")[i])

(* The formatted value handed on as it is. *)
parse_passthrough(res) == res

(* parse_full_analysis_response({"result": formatted}), when it returns.   *)
parse_full_analysis_response(res) ==
    LET laws == ListItems(res, "applicableLaws")
        precedents == ListItems(res, "precedents")
        plan == ListItems(res, "actionPlan")
    IN  {<<"classification", Str(normalize_classification(dict_get(res, "classification", Str("civil"))))>>,
         <<"executiveSummary", normalize_string(dict_get(res, "executiveSummary", Str("Analysis pending")))>>,
         <<"keyFacts", normalize_string(dict_get(res, "keyFacts", ListV(<<>>)))>>,
         <<"applicableLaws",
           ListV([i \in 1..Len(laws) |-> DictV(normalize_law_dict(laws[i]))])>>,
         <<"precedents",
           ListV([i \in 1..Len(precedents) |-> DictV(normalize_precedent_case(precedents[i]))])>>,
         <<"constitutionalAspects", dict_get(res, "constitutionalAspects", Null)>>,
         <<"actionPlan",
           ListV([i \in 1..Len(plan) |-> DictV(normalize_action_plan_item(plan[i]))])>>,
         <<"timeline", normalize_string(dict_get(res, "timeline", Str("Timeline not available")))>>,
         <<"disclaimers", normalize_string(dict_get(res, "disclaimers", Str("AI-generated analysis")))>>}

(* create_mock_full_analysis (lines 206-250) *)
create_mock_full_analysis ==
    {<<"classification", Str("civil")>>, <<"executiveSummary", Str("AI analysis unavailable")>>,
     <<"keyFacts", Str("claims")>>,
     <<"applicableLaws", ListV(<<DictV({<<"act", Str("act")>>, <<"section", Str("section")>>,
                                        <<"description", Str("description")>>})>>)>>,
     <<"precedents", ListV(<<DictV({<<"caseName", Str("Precedent research unavailable")>>,
                                    <<"citation", Str("N/A")>>, <<"court", Str("court")>>,
                                    <<"year", IntV(default_year)>>, <<"headnote", Str("headnote")>>,
                                    <<"holding", Str("holding")>>, <<"relevance", Str("relevance")>>,
                                    <<"distinction", Null>>})>>)>>,
     <<"constitutionalAspects", Null>>,
     <<"actionPlan", ListV(<<DictV({<<"action", Str("action")>>, <<"priority", Str("High")>>,
                                    <<"timeline", Str("timeline")>>})>>)>>,
     <<"timeline", Str("timeline")>>, <<"disclaimers", Str("placeholder response")>>}

-----------------------------------------------------------------------------
(* AIService (services/ai_service.py) behind the routes of                 *)
(* api/routes/ai_processing.py.  A request is one call of an analysis      *)
(* operation on a case; run_legal_crew is the step at which it waits.      *)

TaskTypes == {"full_analysis", "legal_issues", "precedents", "arguments",
              "weaknesses", "court_notes", "cross_questions"}

(* _generate_cache_key: "<task_type>:<hash of the case's key fields>" *)
CacheKey(task, case) == task \o ":" \o case

(* What run_legal_crew returned: prose, text that ends in a fenced JSON    *)
(* object, a fenced report with a year that is no numeral, or a fenced     *)
(* block that is not JSON.                                                 *)
RawOutputs ==
    {<<Words>>, <<Words, FenceOpen, Object(LegalOk), FenceClose>>,
     <<FenceOpen, Object(ReportYearUnknown), FenceClose>>,
     <<FenceOpen, Broken, FenceClose>>}

(* The operation raises after run_legal_crew returned `raw`. *)
NormalizeRaises(task, raw) ==
    task = "full_analysis" /\ parse_raises(format_ai_response(raw, task).value)

(* The value an operation stores and returns. *)
Normalized(task, raw) ==
    IF task = "full_analysis"
    THEN parse_full_analysis_response(format_ai_response(raw, task).value)
    ELSE format_ai_response(raw, task).value

RoleTtlUniform(task) == 3600

(* The ttl each operation passes to cache.set (lines 163, 220, 272, 321,   *)
(* 373, 422, 472).                                                         *)
RoleTtl(task) ==
    CASE task \in {"full_analysis", "precedents", "court_notes"} -> 3600
      [] OTHER -> 1800

(* `if cached:` - None and the empty dict are both falsy. *)
Truthy(opt) == opt # None /\ The(opt) # {}

(* The handler is async and calls the operation without awaiting: while a  *)
(* request runs no other request is handled.                               *)
LoopFree == \A q \in Requests : reqs[q].pc # "crew"

(* The operation starts: cache.get, and on a truthy value the response.    *)
Lookup(r, task, case) ==
    /\ reqs[r].pc = "idle"
    /\ LoopFree
    /\ LET key == CacheKey(task, case)
           g == cache_get(cache, stats, key, now)
       IN  /\ cache' = g.cache
           /\ stats' = g.stats
           /\ last' = Op("get", key, None, None, g.ret)
           /\ reqs' = [reqs EXCEPT ![r] =
                 IF Truthy(g.ret)
                 THEN [pc |-> "done", task |-> task, case |-> case, looked |-> g.ret,
                       invoked |-> 0, kind |-> "cached", value |-> The(g.ret)]
                 ELSE [pc |-> "crew", task |-> task, case |-> case, looked |-> g.ret,
                       invoked |-> 0, kind |-> "", value |-> {}]]
    /\ UNCHANGED <<now, ticks, crewAll, formatVars>>

(* run_legal_crew returned: format, normalize, cache.set, respond; an     *)
(* exception of the normalization is caught, success False, nothing stored. *)
CrewReturns(r, raw) ==
    /\ reqs[r].pc = "crew"
    /\ LET task == reqs[r].task
           key == CacheKey(task, reqs[r].case)
           v == Normalized(task, raw)
           s == cache_set(cache, stats, key, v, Some(RoleTtl(task)), now)
       IN  IF NormalizeRaises(task, raw)
           THEN /\ reqs' = [reqs EXCEPT ![r].pc = "done", ![r].invoked = @ + 1,
                                        ![r].kind = "error"]
                /\ UNCHANGED <<cache, stats, last>>
           ELSE /\ cache' = s.cache
                /\ stats' = s.stats
                /\ last' = Op("set", key, Some(v), Some(RoleTtl(task)), None)
                /\ reqs' = [reqs EXCEPT ![r].pc = "done", ![r].invoked = @ + 1,
                                        ![r].kind = "fresh", ![r].value = v]
    /\ UNCHANGED <<now, ticks, crewAll, formatVars>>

(* run_legal_crew raised: caught, success False, nothing stored. *)
CrewRaises(r) ==
    /\ reqs[r].pc = "crew"
    /\ reqs' = [reqs EXCEPT ![r].pc = "done", ![r].invoked = @ + 1, ![r].kind = "error"]
    /\ UNCHANGED <<storeVars, crewAll, formatVars>>

(* process_full_case, `from main import run_legal_crew` raises ImportError: *)
(* the mock report is returned with success, nothing is stored (138-151).  *)
ImportFails(r) ==
    /\ reqs[r].pc = "crew"
    /\ reqs[r].task = "full_analysis"
    /\ reqs' = [reqs EXCEPT ![r].pc = "done", ![r].kind = "mock",
                            ![r].value = create_mock_full_analysis]
    /\ UNCHANGED <<storeVars, crewAll, formatVars>>

(* The six narrower operations import inside their try: success False. *)
ImportFailsNarrow(r) ==
    /\ reqs[r].pc = "crew"
    /\ reqs[r].task # "full_analysis"
    /\ reqs' = [reqs EXCEPT ![r].pc = "done", ![r].kind = "error"]
    /\ UNCHANGED <<storeVars, crewAll, formatVars>>

(* clear_cache(case_id) and clear_cache() (lines 491-499) *)
ClearCache(scope) ==
    /\ LoopFree
    /\ cache' = IF scope # None
                THEN Without(cache, {k \in DOMAIN cache : StartsWith(k, The(scope))})
                ELSE EmptyCache
    /\ last' = IF scope # None
               THEN Op("invalidate_prefix", The(scope), None, None, None)
               ELSE Op("clear", "", None, None, None)
    /\ UNCHANGED <<stats, now, ticks, reqs, crewAll, formatVars>>

ServiceNext ==
    \/ \E r \in Requests, task \in TaskTypes, case \in Cases : Lookup(r, task, case)
    \/ \E r \in Requests, raw \in RawOutputs : CrewReturns(r, raw)
    \/ \E r \in Requests : CrewRaises(r)
    \/ \E r \in Requests : ImportFails(r)
    \/ \E r \in Requests : ImportFailsNarrow(r)
    \/ \E scope \in {None} \cup {Some(c) : c \in Cases} : ClearCache(scope)
    \/ \E d \in Delays : Advance(d)

ServiceSpec == Init /\ [][ServiceNext]_vars

(* The operations on a cache that another holder of the global instance    *)
(* (get_cache_service) also stores into.                                   *)
SharedCacheNext ==
    \/ \E r \in Requests, task \in {"full_analysis", "legal_issues"}, case \in Cases :
          Lookup(r, task, case)
    \/ \E r \in Requests, raw \in RawOutputs : CrewReturns(r, raw)
    \/ \E r \in Requests : CrewRaises(r)
    \/ \E r \in Requests : ImportFails(r)
    \/ \E r \in Requests : ImportFailsNarrow(r)
    \/ \E k \in CacheKeys, d \in CacheData : Set(k, d, Some(1800))
    \/ \E d \in Delays : Advance(d)

SharedCacheSpec == Init /\ [][SharedCacheNext]_vars

-----------------------------------------------------------------------------
(* The formatter and the normalization layer applied to a text *)

(* identify_issues (api/routes/ai_processing.py 88-94): the issues and the *)
(* confidence of the response built from the formatted result.             *)
identify_issues(formatted_result) ==
    [issues |-> dict_get(formatted_result, "issues", ListV(<<>>)),
     confidence |-> dict_get(formatted_result, "confidence", FloatV(8))]

(* The outcome of a call that may raise. *)
Returned(value) == [raised |-> FALSE, value |-> value]
Raised == [raised |-> TRUE, value |-> {}]

(* The values handed to normalize_precedent_case: records with a year that *)
(* is an integer, a numeral, another string, null, a list, a float or      *)
(* missing, and a bare citation string.                                    *)
PrecedentValues ==
    {DictV({<<"caseName", Str("State case")>>, <<"year", y>>}) :
        y \in {IntV(2019), Str("2019"), Str("unknown"), Null, ListV(<<>>), FloatV(20195)}}
    \cup {DictV({<<"caseName", Str("State case")>>}), Str("State case")}

Fresh == formatted = None /\ normalized = None /\ precedent = None

(* format_ai_response(raw, task), as each operation of AIService calls it *)
FormatResponse(raw, task) ==
    /\ Fresh
    /\ generated_text' = raw
    /\ request_type' = task
    /\ formatted' = Some(format_ai_response(raw, task))
    /\ UNCHANGED <<normalized, precedent, storeVars, reqs, crewAll>>

(* process_full_case, lines 153-159: format_ai_response, then              *)
(* parse_full_analysis_response on its result.                             *)
NormalizeFullAnalysis(raw) ==
    /\ Fresh
    /\ generated_text' = raw
    /\ request_type' = "full_analysis"
    /\ LET f == format_ai_response(raw, "full_analysis")
       IN  /\ formatted' = Some(f)
           /\ normalized' = Some(IF parse_raises(f.value) THEN Raised
                                 ELSE Returned(parse_full_analysis_response(f.value)))
    /\ UNCHANGED <<precedent, storeVars, reqs, crewAll>>

(* normalize_precedent_case(value) *)
NormalizePrecedent(value) ==
    /\ Fresh
    /\ precedent' = Some(value)
    /\ normalized' = Some(IF precedent_raises(value) THEN Raised
                          ELSE Returned(normalize_precedent_case(value)))
    /\ UNCHANGED <<generated_text, request_type, formatted, storeVars, reqs, crewAll>>

(* One application to one input. *)
FormatNext ==
    \/ Fresh /\ \E raw \in RawTexts, task \in TaskTypes : FormatResponse(raw, task)
    \/ Fresh /\ \E raw \in RawTexts : NormalizeFullAnalysis(raw)
    \/ Fresh /\ \E value \in PrecedentValues : NormalizePrecedent(value)

FormatSpec == Init /\ [][FormatNext]_vars

(* The formatted results handed to parse_full_analysis_response: each of   *)
(* applicableLaws, precedents and actionPlan is missing, null, a string,   *)
(* or a list of one or two elements that are records with some keys,       *)
(* strings or null.                                                        *)
ReportInputs ==
    LET Lists(E) == {ListV(<<e>>) : e \in E} \cup {ListV(<<e, e>>) : e \in E}
        Field(key, E) ==
            {{}} \cup {{<<key, v>>} : v \in {Null, Str("none")} \cup Lists(E)}
        Laws == {DictV({<<"act", Str("Contract Act")>>}),
                 DictV({<<"actName", Str("Contract Act")>>, <<"sectionNumber", IntV(73)>>}),
                 DictV({}), Str("Contract Act - Section 73"), Str("Contract Act"), Null}
        Plan == {DictV({<<"action", Str("File suit")>>}),
                 DictV({<<"title", Str("File suit")>>, <<"priority", Str("High")>>}),
                 DictV({}), Str("File suit")}
    IN  {l \cup p \cup a : l \in Field("applicableLaws", Laws),
                           p \in Field("precedents", PrecedentValues),
                           a \in Field("actionPlan", Plan)}

(* parse_full_analysis_response({"result": res}) *)
NormalizeReport(res) ==
    /\ Fresh
    /\ request_type' = "full_analysis"
    /\ formatted' = Some(Formatted(res, "given"))
    /\ normalized' = Some(IF parse_raises(res) THEN Raised
                          ELSE Returned(parse_full_analysis_response(res)))
    /\ UNCHANGED <<generated_text, precedent, storeVars, reqs, crewAll>>

NormalizeNext ==
    \/ Fresh /\ \E res \in ReportInputs : NormalizeReport(res)
    \/ Fresh /\ \E value \in PrecedentValues : NormalizePrecedent(value)

NormalizeSpec == Init /\ [][NormalizeNext]_vars

-----------------------------------------------------------------------------
(* Cache keys and case content (ai_service.py 32-44, cache_service.py      *)
(* 37-50, parsers/case_to_narrative.py).                                   *)

(* Case data: the court, the stage and the defendant are held fixed. *)
CaseDatas ==
    [caseTitle : {"Rent dispute"}, caseType : {"civil"}, plaintiffName : {"A", "B"},
     timeline : {<<>>, <<"notice served">>, <<"lock changed">>},
     evidence : {<<>>, <<"receipts">>, <<"photographs">>},
     claims : {<<"arrears">>, <<"arrears", "eviction">>, <<"eviction", "arrears">>},
     reliefRequested : {"damages", "injunction"}, legalIssues : {<<>>}]

(* case_to_narrative (lines 8-150): the content written into the text, in  *)
(* the order given.                                                        *)
case_to_narrative(case_data) ==
    [title |-> case_data.caseTitle, type |-> case_data.caseType,
     plaintiff |-> case_data.plaintiffName, timeline |-> case_data.timeline,
     claims |-> case_data.claims, relief |-> case_data.reliefRequested,
     evidence |-> case_data.evidence]

(* _generate_cache_key (lines 32-44): the task type as prefix and the      *)
(* SHA-256 of the canonical JSON of cache_dict, which stands for itself    *)
(* here (no two dicts share a hash).                                       *)
AIService_generate_cache_key(case_data, task_type) ==
    LET sorted(s) == IF s = <<"eviction", "arrears">> THEN <<"arrears", "eviction">> ELSE s
        cache_dict == [task |-> task_type,
                       case_type |-> case_data.caseType,
                       title |-> case_data.caseTitle,
                       timeline_count |-> Len(case_data.timeline),
                       evidence_count |-> Len(case_data.evidence),
                       claims |-> sorted(case_data.claims),
                       legal_issues |-> IF case_data.legalIssues # <<>>
                                        THEN sorted(case_data.legalIssues) ELSE <<>>]
    IN  <<task_type, cache_dict>>

(* An operation of AIService on a case, from its cache lookup to its       *)
(* response: a truthy cached value is returned; otherwise the analysis is  *)
(* made from the narrative of the case, stored and returned.               *)
ProcessCase(r, case_data, task) ==
    /\ reqs[r].pc = "idle"
    /\ r = "r2" => reqs["r1"].pc = "done"
    /\ LET key == AIService_generate_cache_key(case_data, task)
           g == cache_get(cache, stats, key, now)
           made == {<<"task", task>>, <<"narrative", case_to_narrative(case_data)>>}
           s == cache_set(g.cache, g.stats, key, made, Some(RoleTtl(task)), now)
       IN  IF Truthy(g.ret)
           THEN /\ cache' = g.cache
                /\ stats' = g.stats
                /\ last' = Op("get", key, None, None, g.ret)
                /\ reqs' = [reqs EXCEPT ![r] =
                      [pc |-> "done", task |-> task, case |-> case_data, looked |-> g.ret,
                       invoked |-> 0, kind |-> "cached", value |-> The(g.ret)]]
           ELSE /\ cache' = s.cache
                /\ stats' = s.stats
                /\ last' = Op("set", key, Some(made), Some(RoleTtl(task)), None)
                /\ reqs' = [reqs EXCEPT ![r] =
                      [pc |-> "done", task |-> task, case |-> case_data, looked |-> g.ret,
                       invoked |-> 1, kind |-> "fresh", value |-> made]]
    /\ UNCHANGED <<now, ticks, crewAll, formatVars>>

KeyNext ==
    \E r \in Requests, case_data \in CaseDatas, task \in {"full_analysis", "court_notes"} :
        ProcessCase(r, case_data, task)

KeySpec == Init /\ [][KeyNext]_vars

-----------------------------------------------------------------------------
(* process_full_case driving run_legal_crew: one full-analysis request of  *)
(* one case, from the cache lookup through the crew to the response.       *)

(* The classifier agent's generate() gave up: its failure text is the      *)
(* classifier's output, and the label is extracted from it as from any     *)
(* other text (agents.py 143-170, main.py 191-206).                        *)
ClassifierGenerateFails(text) ==
    /\ pc = "start"
    /\ result' = <<text>>
    /\ case_type' = ExtractLabel(<<text>>)
    /\ pc' = "classified"
    /\ UNCHANGED <<error, graphVars, crewVars>>
    /\ UNCHANGED <<cache, stats, now, ticks, last, reqs, formatVars>>

AnalyzeNext ==
    \/ Lookup("r1", "full_analysis", "c1")
    \/ reqs["r1"].pc = "crew" /\ Next
    \/ reqs["r1"].pc = "crew" /\ \E text \in FailureTexts : ClassifierGenerateFails(text)
    \/ pc = "done"
       /\ \E raw \in (IF final_report \in FailureTexts THEN {<<Words>>} ELSE RawOutputs) :
             CrewReturns("r1", raw)
    \/ pc = "raised" /\ CrewRaises("r1")

AnalyzeSpec == Init /\ [][AnalyzeNext]_vars

-----------------------------------------------------------------------------
(* Properties of the task graph's execution *)

AllSix == Assembled /\ Len(all_tasks) = 6

Failed == {t \in TaskIds : TaskStatus(t) = "failed"}

(* C1: no task is running while a task of its context list has not        *)
(* succeeded.                                                              *)
C1_NoRunBeforeContextSucceeded ==
    \A t \in TaskIds :
        status[t] = "running" => \A c \in ContextOf(t) : TaskStatus(c) = "succeeded"

(* The part of C1 that is about order alone: a running task's context     *)
(* tasks have all returned.                                                *)
RunsAfterContextReturned ==
    \A t \in TaskIds :
        status[t] = "running" => \A c \in ContextOf(t) : status[c] = "done"

(* C2: when the Law Mapper (alone) fails, Precedent Finder, Constitutional        *)
(* Validator, Pathway Advisor and Report Synthesizer are never dispatched  *)
(* and the Fact Interpreter stays succeeded.                               *)
C2_LawMapperFailureContained ==
    (AllSix /\ Failed = {LawMapper}) =>
        /\ {PrecedentFinder, ConstitutionalValidator, PathwayAdvisor, ReportSynthesizer}
               \cap dispatched = {}
        /\ TaskStatus(FactInterpreter) = "succeeded"

(* C3: when only the Precedent Finder fails, Constitutional Validator and *)
(* Pathway Advisor end succeeded and only the Report Synthesizer is        *)
(* skipped (never dispatched).                                             *)
C3_PrecedentFailureHaltsOnlyDependents ==
    (AllSix /\ pc = "done" /\ Failed = {PrecedentFinder}) =>
        /\ TaskStatus(ConstitutionalValidator) = "succeeded"
        /\ TaskStatus(PathwayAdvisor) = "succeeded"
        /\ ReportSynthesizer \notin dispatched

-----------------------------------------------------------------------------
(* Properties of the assembled graph *)

TrackBuilders == {"create_civil_tasks", "create_criminal_tasks"}

TaskAgents == {all_tasks[i].agent : i \in 1..Len(all_tasks)}

(* C4: the two track builders are never both invoked for one request;     *)
(* once the crew is assembled exactly one was, and the crew's agents and   *)
(* tasks are those of that track plus the shared ones.                     *)
C4_OneTrackPerRequest ==
    /\ ~(TrackBuilders \subseteq built)
    /\ ~(TaskAgents \cap Range(CIVIL_AGENTS) # {} /\ TaskAgents \cap Range(CRIMINAL_AGENTS) # {})
    /\ Assembled =>
          /\ Cardinality(built \cap TrackBuilders) = 1
          /\ \E track \in {CIVIL_AGENTS, CRIMINAL_AGENTS} :
                /\ Range(all_agents) = Range(track) \cup Range(SHARED_AGENTS)
                /\ TaskAgents = Range(track) \cup Range(SHARED_AGENTS)
                /\ ("create_civil_tasks" \in built) <=> (track = CIVIL_AGENTS)

C4_Witness ==
    /\ pc = "done"
    /\ built = {"create_criminal_tasks", "create_shared_tasks"}
    /\ TaskAgents = Range(CRIMINAL_AGENTS) \cup Range(SHARED_AGENTS)

(* C8: context edges of the first five nodes and the async flags. *)
C8_ContextEdges ==
    AllSix =>
        /\ Range(all_tasks[1].context) = {}
        /\ Range(all_tasks[2].context) = {FactInterpreter}
        /\ Range(all_tasks[3].context) = {FactInterpreter, LawMapper}
        /\ Range(all_tasks[4].context) = {FactInterpreter, LawMapper}
        /\ Range(all_tasks[5].context) = {ConstitutionalValidator, LawMapper}
        /\ {i \in 1..6 : all_tasks[i].async_execution} = {3, 4}
        /\ <<all_tasks[1].agent, all_tasks[2].agent, all_tasks[3].agent>>
              \in {CIVIL_AGENTS, CRIMINAL_AGENTS}
        /\ <<all_tasks[4].agent, all_tasks[5].agent, all_tasks[6].agent>> = SHARED_AGENTS

C8_Witness ==
    /\ pc = "analysis"
    /\ idx = 1
    /\ Len(all_tasks) = 6
    /\ all_tasks[5].context = <<"constitutional_validator", "criminal_law_mapper">>

(* C9, as claimed: the Report Synthesizer's context is all six nodes. *)
C9_SynthesizerContextAllSix ==
    AllSix => Range(all_tasks[6].context) = TaskAgents

(* C9, amended: the Report Synthesizer's context is the five other nodes,  *)
(* the three track tasks followed by Constitutional Validator and Pathway  *)
(* Advisor; the synthesizer itself is not in it.                           *)
C9_SynthesizerContextOtherFive ==
    AllSix =>
        all_tasks[6].context =
            <<FactInterpreter, LawMapper, PrecedentFinder,
              ConstitutionalValidator, PathwayAdvisor>>

C9_Witness ==
    /\ pc = "analysis"
    /\ Len(all_tasks) = 6
    /\ Len(all_tasks[6].context) = 5
    /\ "civil_precedent_finder" \in Range(all_tasks[6].context)

(* C10: the context relation is acyclic, and every task in a context list *)
(* is in the crew's task list, earlier than the task that lists it.        *)
PositionsOf(t) == {j \in 1..Len(all_tasks) : all_tasks[j].agent = t}

(* The closure of a set of tasks under context edges. *)
RECURSIVE ContextClosure(_)
ContextClosure(S) ==
    LET S2 == S \cup UNION {ContextOf(u) : u \in S}
    IN  IF S2 = S THEN S ELSE ContextClosure(S2)

(* Tasks reachable from t through one or more context edges. *)
Reachable(t) == ContextClosure(ContextOf(t))

C10_AcyclicAndOrdered ==
    Assembled =>
        /\ \A t \in TaskAgents : t \notin Reachable(t)
        /\ \A i \in 1..Len(all_tasks) :
              \A c \in Range(all_tasks[i].context) :
                  /\ PositionsOf(c) # {}
                  /\ \A j \in PositionsOf(c) : j < i

C10_Witness ==
    /\ pc = "analysis"
    /\ Len(all_tasks) = 6
    /\ "report_synthesizer" \notin Reachable("report_synthesizer")
    /\ "civil_fact_interpreter" \in Reachable("report_synthesizer")

-----------------------------------------------------------------------------
(* Properties of label extraction *)

Labels == {"civil", "criminal"}

(* C5: label extraction raises nothing and leaves case_type civil or      *)
(* criminal, so no builder is invoked with another label.                  *)
C5_LabelAlwaysNormalized ==
    (pc # "start" /\ error # "ClassifierFailed") =>
        /\ case_type \in Labels
        /\ error \notin {"AttributeError", "KeyError"}

(* A JSON object in the text: an opening brace, members, a closing brace.  *)
(* Its classification field, when it has one, is the last such member.     *)
IsJsonObject(text, i, j) ==
    /\ i < j
    /\ text[i] = LB
    /\ text[j] = RB
    /\ \A k \in (i+1)..(j-1) : IsMember(text[k])

ClassifiedObjects(text) ==
    {p \in (1..Len(text)) \X (1..Len(text)) :
        /\ IsJsonObject(text, p[1], p[2])
        /\ \E k \in (p[1]+1)..(p[2]-1) : text[k] \in ClassificationMembers}

HasJsonClassification(text) == ClassifiedObjects(text) # {}

(* The classification value of the first such object of the text. *)
JsonClassification(text) ==
    LET p  == CHOOSE p \in ClassifiedObjects(text) :
                  \A q \in ClassifiedObjects(text) : p[1] <= q[1]
        ks == {k \in (p[1]+1)..(p[2]-1) : text[k] \in ClassificationMembers}
    IN  MemberValue(text[CHOOSE k \in ks : \A h \in ks : h <= k])

(* C6: when the text holds a JSON object with a classification field, the *)
(* label is that field's value, whatever the prose around it says.         *)
C6_JsonClassificationWins ==
    (pc = "classified" /\ HasJsonClassification(result)) =>
        case_type = JsonClassification(result)

(* The text spells the word criminal, in whatever letter case. *)
MentionsCriminal(text) ==
    \E i \in 1..Len(text) : WordsOf(text[i]) \cap {"criminal", "Criminal"} # {}

(* C7: with no parsable JSON classification the label is criminal exactly *)
(* when the text mentions criminal in any letter case, and civil           *)
(* otherwise; AIService._extract_classification follows the same rule.     *)
C7_KeywordFallback ==
    (pc = "classified" /\ ~HasJsonClassification(result)) =>
        /\ case_type = (IF MentionsCriminal(result) THEN "criminal" ELSE "civil")
        /\ AIService_extract_classification(result) = case_type

C7_Witness ==
    /\ pc = "classified"
    /\ ~HasJsonClassification(result)
    /\ Len(result) = 3
    /\ result[1] = LB
    /\ result[2] = "Criminal"
    /\ case_type = "criminal"

-----------------------------------------------------------------------------
(* Completion order of the two parallel siblings *)

Before(a, b) ==
    \E i, j \in 1..Len(completion) : i < j /\ completion[i] = a /\ completion[j] = b

(* The result map and the inputs of the two downstream tasks as they follow *)
(* from the outputs alone, with no reference to the order of completion.   *)
MergedInput(t) ==
    LET task == all_tasks[CHOOSE j \in PositionsOf(t) : TRUE]
    IN  [i \in 1..Len(task.context) |-> output[task.context[i]]]

C11_WitnessDispatchOrder ==
    /\ pc = "done" /\ Len(all_tasks) = 6
    /\ Before(PrecedentFinder, ConstitutionalValidator)
    /\ output[ConstitutionalValidator] # output[PrecedentFinder]

-----------------------------------------------------------------------------
(* Termination of the analysis crew *)

(* One pass of generate's attempt loop for task t comes to an end: the     *)
(* request carries timeout=self.timeout (agents.py 108-110).               *)
AttemptEnds(t) ==
    GenerateOk(t) \/ GenerateTimeoutRetry(t) \/ GenerateTimeoutFinal(t) \/ GenerateError(t)

(* The crew's walk and every started attempt keep going; that kickoff      *)
(* raises is never forced.                                                 *)
FairSpec ==
    /\ Init /\ [][Next]_vars
    /\ WF_vars(Classify \/ ClassifierRaise)
    /\ WF_vars(LabelNotString \/ SharedTasksKeyError \/ BuildGraph)
    /\ WF_vars(DispatchAsync) /\ WF_vars(StartSync) /\ WF_vars(KickoffReturn)
    /\ \A t \in TaskIds : WF_vars(AttemptEnds(t))

AllTerminal == \A t \in TaskAgents : TaskStatus(t) \in {"succeeded", "failed", "skipped"}

Ended == pc = "done" \/ (pc = "raised" /\ error = "AnalysisFailed")

(* C12: an execution of the analysis graph that has ended has every task   *)
(* in a terminal status; none is left pending or running.                  *)
C12_EndedWithEveryTaskTerminal == Ended => AllTerminal

(* What does hold under fairness: the execution ends, and when kickoff     *)
(* returned every task has returned; when kickoff raised, the tasks not    *)
(* yet finished stay as they were.                                         *)
TerminatesOrAborts ==
    (pc = "analysis") ~> ((pc = "done" /\ AllTerminal) \/ (pc = "raised" /\ error = "AnalysisFailed"))

ReturnedWithEveryTaskTerminal == pc = "done" => AllTerminal

-----------------------------------------------------------------------------
(* The retry budget of generate *)

(* C20: a call makes at most max_retries + 1 attempts, and a failure is    *)
(* reported only when the budget is spent: a task whose call returned a    *)
(* failure text has made every one of its attempts, whether the failed     *)
(* attempt timed out or errored in another way.                            *)
C20_RetryUntilBudgetSpent ==
    \A t \in TaskIds :
        /\ attempt[t] + 1 <= max_retries + 1
        /\ (status[t] = "done" /\ output[t] \in FailureTexts) => attempt[t] + 1 = max_retries + 1

(* The half that holds: never more than max_retries + 1 attempts, and a    *)
(* timeout is reported only after the last of them.                        *)
AttemptsWithinBudget ==
    \A t \in TaskIds :
        /\ attempt[t] + 1 <= max_retries + 1
        /\ (status[t] = "done" /\ output[t] = "Error: LLM timeout") => attempt[t] + 1 = max_retries + 1

-----------------------------------------------------------------------------
(* Properties of the cache *)

(* C13: a get(k) that directly follows set(k, v, ttl) with no time elapsed *)
(* returns exactly v and adds one hit and nothing else to the counters,    *)
(* for every key, value and ttl, whatever calls came before the set.       *)
C13_SetThenGetReturnsValue ==
    [][(/\ last.name = "set" /\ last.at = now
        /\ last'.name = "get" /\ last'.key = last.key)
       => (/\ last'.ret = last.data
           /\ stats' = [stats EXCEPT !.hits = @ + 1]
           /\ cache' = cache)]_vars

(* Such a get has returned: the entry was stored at this very instant,     *)
(* after a set on the other key, and the value is the empty dict.          *)
C13_Witness ==
    /\ last.name = "get" /\ last.ret = Some({})
    /\ last.key \in DOMAIN cache /\ cache[last.key].created_at = now
    /\ DOMAIN cache = CacheKeys
    /\ stats = [hits |-> 1, misses |-> 0, sets |-> 2, evictions |-> 0]

(* The step is a call of get, respectively of set. *)
GetStep == stats'.hits + stats'.misses # stats.hits + stats.misses
SetStep == stats'.sets # stats.sets

(* C14: a get on an entry whose expiry has passed returns None, removes    *)
(* that entry and no other, and adds one to misses and one to evictions;   *)
(* a get on a key that is not in the store (as after that removal, with no *)
(* new set) adds one to misses only.                                       *)
C14_ExpiredGetEvictsOnce ==
    [][GetStep =>
        LET k == last'.key
        IN  /\ (k \in DOMAIN cache /\ cache[k].expires_at < now) =>
                  /\ last'.ret = None
                  /\ cache' = Without(cache, {k})
                  /\ stats' = [stats EXCEPT !.misses = @ + 1, !.evictions = @ + 1]
            /\ k \notin DOMAIN cache =>
                  /\ last'.ret = None
                  /\ cache' = cache
                  /\ stats' = [stats EXCEPT !.misses = @ + 1]]_vars

(* An entry was stored, expired, was evicted by a get, and a further get   *)
(* on the key missed.                                                      *)
C14_Witness ==
    /\ last.name = "get" /\ last.ret = None
    /\ last.key \notin DOMAIN cache
    /\ stats = [hits |-> 0, misses |-> 2, sets |-> 1, evictions |-> 1]

(* C15: get returns a stored entry only while the current time is strictly *)
(* less than its expires_at; from the instant the two are equal it returns *)
(* None.                                                                   *)
C15_VisibleOnlyBeforeExpiry ==
    (last.name = "get" /\ last.at = now /\ last.ret # None) =>
        (last.key \in DOMAIN cache /\ now < cache[last.key].expires_at)

(* What the code does: the entry is returned up to and including the       *)
(* instant expires_at.                                                     *)
VisibleUntilExpiryIncluded ==
    (last.name = "get" /\ last.at = now /\ last.ret # None) =>
        (last.key \in DOMAIN cache /\ now <= cache[last.key].expires_at)

(* C16: set(k, v, T) at t1 followed by set(k, v, T) at t2 >= t1 leaves one *)
(* entry for k, with value v and expiry t2 + T.                            *)
C16_SecondSetResetsExpiry ==
    [][(/\ last.name = "set" /\ SetStep /\ last.ttl # None
        /\ last'.key = last.key /\ last'.data = last.data /\ last'.ttl = last.ttl)
       => LET k == last.key
          IN  /\ DOMAIN cache' = DOMAIN cache \cup {k}
              /\ cache'[k].data = The(last.data)
              /\ cache'[k].expires_at = now + The(last.ttl)]_vars

(* The same for a ttl other than 0. *)
SecondSetResetsExpiryNonZero ==
    [][(/\ last.name = "set" /\ SetStep /\ last.ttl \notin {None, Some(0)}
        /\ last'.key = last.key /\ last'.data = last.data /\ last'.ttl = last.ttl)
       => LET k == last.key
          IN  /\ DOMAIN cache' = DOMAIN cache \cup {k}
              /\ cache'[k].data = The(last.data)
              /\ cache'[k].created_at = now
              /\ cache'[k].expires_at = now + The(last.ttl)]_vars

-----------------------------------------------------------------------------
(* Properties of the AIService operations *)

(* The request's lookup found an unexpired entry. *)
Hit(r) == reqs[r].pc # "idle" /\ reqs[r].looked # None

NonEmptyHitReturnsCachedValue ==
    \A r \in Requests :
        (Hit(r) /\ The(reqs[r].looked) # {}) =>
            /\ reqs[r].pc = "done"
            /\ reqs[r].kind = "cached"
            /\ reqs[r].value = The(reqs[r].looked)
            /\ reqs[r].invoked = 0

(* The operations themselves never store an empty dict. *)
StoredValuesNonEmpty == \A k \in DOMAIN cache : cache[k].data # {}

(* The request's operation hands back its response in this step. *)
Responds(r) == reqs[r].pc = "crew" /\ reqs'[r].pc = "done"

(* The request's operation makes its lookup in this step. *)
LooksUp(r) == reqs[r].pc = "idle" /\ reqs'[r].pc # "idle"

KeyOf(r) == CacheKey(reqs'[r].task, reqs'[r].case)

(* The entry the operation leaves for the value v it returns. *)
EntryFor(task, v) ==
    [data |-> v, created_at |-> now,
     expires_at |-> now + (IF task \in {"full_analysis", "precedents", "court_notes"}
                           THEN 3600 ELSE 1800)]

(* An identical request issued while the entry is unexpired is served the  *)
(* stored value.                                                           *)
ServedWhileUnexpired(r) ==
    (LooksUp(r) /\ KeyOf(r) \in DOMAIN cache /\ now < cache[KeyOf(r)].expires_at) =>
        /\ reqs'[r].pc = "done" /\ reqs'[r].kind = "cached"
        /\ reqs'[r].value = cache[KeyOf(r)].data
        /\ cache' = cache

(* Two requests for one key, one computed and one served from the cache,   *)
(* hold the same value.                                                    *)
CachedEqualsComputed ==
    \A r, q \in Requests :
        (/\ reqs[r].kind = "fresh" /\ reqs[q].kind = "cached"
         /\ reqs[r].task = reqs[q].task /\ reqs[r].case = reqs[q].case)
        => reqs[q].value = reqs[r].value

(* C18: a miss that ends in success has invoked run_legal_crew once and    *)
(* stored under the request's key exactly the value returned, with 3600 s  *)
(* for full_analysis, precedents and court_notes and 1800 s for the other  *)
(* roles; an identical request before the TTL passes is served that value. *)
C18_MissStoresWhatItReturns ==
    /\ []CachedEqualsComputed
    /\ [][\A r \in Requests :
            /\ (Responds(r) /\ reqs'[r].kind \in {"fresh", "mock"}) =>
                  /\ reqs'[r].invoked = 1
                  /\ reqs'[r].looked = None
                  /\ KeyOf(r) \in DOMAIN cache'
                  /\ cache'[KeyOf(r)] = EntryFor(reqs'[r].task, reqs'[r].value)
            /\ ServedWhileUnexpired(r)]_vars

(* C18, amended: the same for every miss that ends in success after        *)
(* run_legal_crew returned; the mock fallback of process_full_case ends in *)
(* success without invoking it and stores nothing.                         *)
C18_ComputedMissStoresWhatItReturns ==
    /\ []CachedEqualsComputed
    /\ [][\A r \in Requests :
            /\ (Responds(r) /\ reqs'[r].kind = "fresh") =>
                  /\ reqs'[r].invoked = 1
                  /\ reqs'[r].looked = None
                  /\ reqs'[r].value \in {Normalized(reqs'[r].task, raw) :
                                           raw \in {x \in RawOutputs : ~NormalizeRaises(reqs'[r].task, x)}}
                  /\ KeyOf(r) \in DOMAIN cache'
                  /\ cache'[KeyOf(r)] = EntryFor(reqs'[r].task, reqs'[r].value)
            /\ (Responds(r) /\ reqs'[r].kind = "mock") =>
                  /\ reqs'[r].task = "full_analysis"
                  /\ reqs'[r].invoked = 0
                  /\ cache' = cache /\ stats' = stats
            /\ ServedWhileUnexpired(r)]_vars

(* A legal_issues request was computed and stored for 1800 s; time passed, *)
(* and the identical request was served the same value from the cache.     *)
C18_Witness ==
    \E r, q \in Requests :
        /\ reqs[r].kind = "fresh" /\ reqs[q].kind = "cached"
        /\ reqs[r].task = "legal_issues" /\ reqs[q].task = "legal_issues"
        /\ reqs[q].value = reqs[r].value
        /\ "legal_issues:c1" \in DOMAIN cache
        /\ cache["legal_issues:c1"].expires_at = cache["legal_issues:c1"].created_at + 1800
        /\ cache["legal_issues:c1"].created_at < now

(* The request found nothing under its key. *)
Missed(r) == reqs[r].pc # "idle" /\ reqs[r].looked = None

Identical(r, q) == r # q /\ reqs[r].task = reqs[q].task /\ reqs[r].case = reqs[q].case

SecondServedWhileEntryLives ==
    [][\A r \in Requests : ServedWhileUnexpired(r) /\ (Responds(r) => LoopFree')]_vars

-----------------------------------------------------------------------------
(* Timeouts and other failures of generate *)

(* The call of task t gives up in this step and returns `text`. *)
GivesUp(t, text) ==
    status[t] = "running" /\ status'[t] = "done" /\ output'[t] = text

(* The call of task t is retried in this step. *)
Retried(t) == attempt'[t] = attempt[t] + 1

(* C21: a timeout and any other failure are treated alike: on an attempt   *)
(* after which a timeout is retried, no other failure ends the call, so    *)
(* both kinds of failure lead to the same number of further attempts.      *)
C21_TimeoutLikeAnyFailure ==
    [][\A t \in TaskIds :
          GivesUp(t, "[OLLAMA_ERROR]") => ~(attempt[t] < max_retries)]_vars

(* What holds: a timeout gives up only on the last attempt, and both kinds *)
(* of failure end as a failure text handed on as the task's output.        *)
TimeoutGivesUpLast ==
    [][\A t \in TaskIds :
          /\ GivesUp(t, "Error: LLM timeout") => ~(attempt[t] < max_retries)
          /\ Retried(t) => attempt[t] < max_retries]_vars

-----------------------------------------------------------------------------
(* Properties of the formatter and the normalization layer *)

(* format_ai_response alone was applied to the text. *)
WasFormatted == formatted # None /\ normalized = None

(* The object a JSON tier of format_ai_response obtains from the text: the *)
(* group of the fenced match if there is a match, else the span from the   *)
(* first "{" to the last "}"; None when that is not one JSON object.       *)
ParsedAtFence(raw) ==
    IF fenced_match(raw) # None /\ ~json_loads_raises(raw, The(fenced_match(raw)))
    THEN Some(json_loads(raw, The(fenced_match(raw)))) ELSE None

ParsedAtBraces(raw) ==
    IF brace_span(raw) # None /\ ~json_loads_raises(raw, The(brace_span(raw)))
    THEN Some(json_loads(raw, The(brace_span(raw)))) ELSE None

(* C25: for every text and every request type the value format_ai_response *)
(* returns holds every key of the type's schema, none missing or null,     *)
(* also when a JSON object lacks a required key or has a wrongly-typed     *)
(* field and when no tier finds JSON.                                      *)
C25_EveryKeyOfSchema ==
    WasFormatted =>
        \A k \in RequiredFields(request_type) :
            /\ k \in Keys(The(formatted).value)
            /\ At(The(formatted).value, k).type # "null"

(* What holds: a value that is not the error structure has the keys the    *)
(* validators require, unless it comes from the heuristics for             *)
(* legal_issues, which name their keys issues and confidence.              *)
KeysUnlessRejected ==
    (WasFormatted /\ The(formatted).via # "error"
       /\ ~(request_type = "legal_issues" /\ The(formatted).via = "fallback"))
    => RequiredFields(request_type) \subseteq Keys(The(formatted).value)

(* The objects of the fenced blocks of a text that have every key the      *)
(* request type requires.                                                  *)
FencedComplete(raw, task) ==
    {d \in Objects :
        /\ RequiredFields(task) \subseteq Keys(d)
        /\ \E i \in 1..(Len(raw) - 2) :
              raw[i] = FenceOpen /\ raw[i + 1] = Object(d) /\ raw[i + 2] = FenceClose}

(* C26: for a text with a fenced JSON block whose object has every         *)
(* required key the result is that very object, no key dropped, renamed or *)
(* altered, whatever surrounds the fence.                                  *)
C26_FencedObjectReturnedExactly ==
    (WasFormatted /\ FencedComplete(generated_text, request_type) # {})
    => The(formatted).value \in FencedComplete(generated_text, request_type)

(* What holds: an object the fenced tier parsed and the validation let     *)
(* through is returned as it is.                                           *)
FencedObjectReturnedWhenValid ==
    (WasFormatted /\ The(formatted).via = "fenced")
    => /\ The(formatted).value = The(ParsedAtFence(generated_text))
       /\ RequiredFields(request_type) \subseteq Keys(The(formatted).value)

(* C28: the tiers are tried in one order - fenced block, first "{" to last *)
(* "}", heuristics - and a tier that yields no parsed object, for want of  *)
(* a match or of valid JSON, leads to the next: the result comes from the  *)
(* first tier that parses an object, and from the heuristics when neither  *)
(* JSON tier does.                                                         *)
C28_TiersInOrder ==
    WasFormatted =>
        LET via == The(formatted).via
        IN  IF ParsedAtFence(generated_text) # None THEN via \in {"fenced", "error"}
            ELSE IF ParsedAtBraces(generated_text) # None THEN via \in {"braces", "error"}
            ELSE via = "fallback"

(* What holds: the same, for texts in which no fenced block is matched.    *)
TiersInOrderWithoutFence ==
    (WasFormatted /\ fenced_match(generated_text) = None) =>
        IF ParsedAtBraces(generated_text) # None
        THEN The(formatted).via \in {"braces", "error"}
        ELSE The(formatted).via = "fallback"

(* A number clipped to [0,1]. *)
Clipped(v) ==
    IF v.n < 0 THEN FloatV(0)
    ELSE IF (v.type = "int" /\ v.n > 1) \/ (v.type = "float" /\ v.n > 10) THEN FloatV(10)
    ELSE v

(* The objects with a list of issues and a numeric confidence that a JSON  *)
(* tier obtains from the text.                                             *)
WithConfidence(raw) ==
    {d \in ParsedAtFence(raw) \cup (IF fenced_match(raw) = None THEN ParsedAtBraces(raw) ELSE {}) :
        /\ {"identified_issues", "confidence_score"} \subseteq Keys(d)
        /\ At(d, "identified_issues").type = "list"
        /\ At(d, "confidence_score").type \in {"int", "float"}}

(* C29: a numeric confidence found in the generated output is clipped to   *)
(* [0,1], never a reason to reject the response, and the confidence given  *)
(* to the caller lies in [0,1].                                            *)
C29_ConfidenceClipped ==
    (WasFormatted /\ request_type = "legal_issues") =>
        \A d \in WithConfidence(generated_text) :
            /\ The(formatted).via # "error"
            /\ At(The(formatted).value, "confidence_score") = Clipped(At(d, "confidence_score"))
            /\ InUnitInterval(identify_issues(The(formatted).value).confidence)

(* What holds: the confidence of the route's response lies in [0,1].       *)
ResponseConfidenceInUnitInterval ==
    (WasFormatted /\ request_type = "legal_issues")
    => InUnitInterval(identify_issues(The(formatted).value).confidence)

(* The year the record should get: an integer kept, a numeral converted,   *)
(* the default for a value that cannot be read as a year.                  *)
ExpectedYear(value) ==
    IF value.type = "dict" /\ "year" \in Keys(value.d)
    THEN LET y == At(value.d, "year")
         IN  IF y.type = "int" THEN y.n
             ELSE IF y.type = "str" /\ y.s \in NumericStrings THEN int_of_str(y.s)
             ELSE default_year
    ELSE default_year

(* C30: normalize_precedent_case never raises and gives an integer year -  *)
(* the integer, the numeral converted, or the default for any value that   *)
(* cannot be parsed - so that no precedent record makes the full-analysis  *)
(* normalization fail.                                                     *)
C30_YearAlwaysAnInteger ==
    /\ precedent # None =>
          /\ ~The(normalized).raised
          /\ At(The(normalized).value, "year") = IntV(ExpectedYear(The(precedent)))
    /\ (formatted # None /\ normalized # None) => ~The(normalized).raised

(* What holds: whenever normalize_precedent_case returns, the year is the  *)
(* expected integer.                                                       *)
YearAnIntegerWhenReturned ==
    (precedent # None /\ ~The(normalized).raised)
    => At(The(normalized).value, "year") = IntV(ExpectedYear(The(precedent)))

-----------------------------------------------------------------------------
(* The report of process_full_case                                         *)

(* A full-analysis request answered with success True. *)
ReportReturned(r) ==
    /\ reqs[r].pc = "done"
    /\ reqs[r].task = "full_analysis"
    /\ reqs[r].kind \in {"fresh", "cached", "mock"}

(* C24: every report process_full_case returns with success - computed,    *)
(* served from the cache or the mock - has the nine fields classification, *)
(* executiveSummary, keyFacts, applicableLaws, precedents,                 *)
(* constitutionalAspects, actionPlan, timeline and disclaimers, whatever   *)
(* the generated text was, and its classification is civil or criminal.    *)
C24_ReportHasEveryField ==
    \A r \in Requests :
        ReportReturned(r)
        => /\ FullAnalysisFields \subseteq Keys(reqs[r].value)
           /\ At(reqs[r].value, "classification") \in {Str("civil"), Str("criminal")}

(* A computed report and a report served from the cache, both made from    *)
(* text the formatter answered without any report field (the default       *)
(* summary stands in for the missing key).                                 *)
C24_WitnessReportFromUnformattedText ==
    /\ ReportReturned("r1") /\ reqs["r1"].kind = "fresh"
    /\ ReportReturned("r2") /\ reqs["r2"].kind = "cached"
    /\ At(reqs["r1"].value, "executiveSummary") = Str("Analysis pending")
    /\ reqs["r2"].value = reqs["r1"].value

(* C27: after clear_cache(case) the next request for that case is a miss   *)
(* for every task type while entries of other cases remain; after          *)
(* clear_cache() every lookup is a miss.  (The classifier cache has no     *)
(* writer in the service and stays empty.)                                 *)
C27_ClearCacheForgetsCase ==
    [][/\ (last' # last /\ last'.name = "invalidate_prefix")
          => /\ \A task \in TaskTypes :
                   ~Truthy(cache_get(cache', stats', CacheKey(task, last'.key), now').ret)
             /\ \A task \in TaskTypes, c \in Cases \ {last'.key} :
                   CacheKey(task, c) \in DOMAIN cache => CacheKey(task, c) \in DOMAIN cache'
       /\ (last' # last /\ last'.name = "clear")
          => \A task \in TaskTypes, c \in Cases :
                ~Truthy(cache_get(cache', stats', CacheKey(task, c), now').ret)]_vars

(* The unscoped half on its own: after clear_cache() every lookup misses.  *)
UnscopedClearForgetsAll ==
    [][(last' # last /\ last'.name = "clear")
       => \A task \in TaskTypes, c \in Cases :
             ~Truthy(cache_get(cache', stats', CacheKey(task, c), now').ret)]_vars

-----------------------------------------------------------------------------
(* Failures inside a full analysis                                         *)

(* The request was answered after kickoff returned with a failed task. *)
AnsweredAfterFailure ==
    /\ reqs["r1"].pc = "done"
    /\ pc = "done"
    /\ Failed # {}

(* The report fields that hold text. *)
TextSections == {"executiveSummary", "keyFacts", "timeline", "disclaimers"}

(* C22: when an analysis task after classification has failed, the full    *)
(* analysis still returns success with a complete report, and the failed   *)
(* branch shows as placeholder text in its section: when the synthesizer   *)
(* is the failed task, no text section of the report is left empty.        *)
C22_FailureShowsAsPlaceholder ==
    AnsweredAfterFailure
    => /\ reqs["r1"].kind = "fresh"
       /\ FullAnalysisFields \subseteq Keys(reqs["r1"].value)
       /\ final_report \in FailureTexts
          => \A f \in TextSections : At(reqs["r1"].value, f) # Str("")

(* What holds: a failed synthesizer does not abort the request; the answer *)
(* is a report with the nine fields.                                       *)
FailedSynthesizerStillAnswered ==
    (AnsweredAfterFailure /\ final_report \in FailureTexts)
    => /\ reqs["r1"].kind = "fresh"
       /\ FullAnalysisFields \subseteq Keys(reqs["r1"].value)

(* The classification step failed altogether: kickoff raised, or the       *)
(* classifier's generate() gave up and its failure text is the output.     *)
ClassificationFailed ==
    \/ pc = "raised" /\ error = "ClassifierFailed"
    \/ pc = "classified" /\ result \in {<<text>> : text \in FailureTexts}

(* C23: a total failure of the classification step aborts the request: no  *)
(* track or shared task is created or run, the caller gets one top-level   *)
(* error, and nothing is written to the cache.                             *)
C23_ClassificationFailureAborts ==
    [][ClassificationFailed
       => /\ built' = {} /\ all_tasks' = <<>> /\ dispatched' = {}
          /\ cache' = EmptyCache
          /\ reqs'["r1"].pc = "done" => reqs'["r1"].kind = "error"]_vars

(* What holds: when the classifier's kickoff raises, the request ends so.  *)
ClassifierRaiseAborts ==
    (pc = "raised" /\ error = "ClassifierFailed")
    => /\ built = {} /\ all_tasks = <<>> /\ dispatched = {}
       /\ cache = EmptyCache
       /\ reqs["r1"].pc = "done" => reqs["r1"].kind = "error"

-----------------------------------------------------------------------------
(* CacheService: time-to-live and counters                                 *)

(* The step is a call of the named operation. *)
Called(name) == last' # last /\ last'.name = name

(* C32: set honours the ttl it is given: expires-at is the creation time   *)
(* plus the supplied ttl for every supplied ttl, 0 included, and the       *)
(* default ttl is used only when ttl is None.                              *)
C32_SetHonoursGivenTtl ==
    [][Called("set")
       => LET entry == cache'[last'.key]
          IN  entry.expires_at = entry.created_at
                  + (IF last'.ttl = None THEN default_ttl ELSE The(last'.ttl))]_vars

(* What holds: a supplied ttl other than 0 is honoured, and None means the *)
(* default.                                                                *)
SetHonoursNonZeroTtl ==
    [][(Called("set") /\ last'.ttl # Some(0))
       => LET entry == cache'[last'.key]
          IN  entry.expires_at = entry.created_at
                  + (IF last'.ttl = None THEN default_ttl ELSE The(last'.ttl))]_vars

(* C33: every entry removed because it expired is counted in evictions     *)
(* exactly once, whether get or cleanup_expired removes it.                *)
C33_EveryExpiryCounted ==
    [][(Called("get") \/ Called("cleanup_expired"))
       => stats'.evictions = stats.evictions + Cardinality(DOMAIN cache \ DOMAIN cache')]_vars

(* What holds: an entry that get removes is counted once. *)
LazyExpiryCounted ==
    [][Called("get")
       => stats'.evictions = stats.evictions + Cardinality(DOMAIN cache \ DOMAIN cache')]_vars

(* C34: hits + misses counts the get calls and sets the set calls (each    *)
(* get adds one to exactly one of hits and misses, each set adds one to    *)
(* sets, and nothing else changes a counter), evictions <= misses, no      *)
(* counter decreases, and total_entries is the number of keys stored.      *)
C34_CountersConsistent ==
    [][/\ Called("get")
          => /\ stats'.hits + stats'.misses = stats.hits + stats.misses + 1
             /\ stats'.sets = stats.sets
       /\ Called("set")
          => /\ stats'.sets = stats.sets + 1
             /\ stats'.hits = stats.hits /\ stats'.misses = stats.misses
             /\ stats'.evictions = stats.evictions
       /\ stats' # stats => last'.name \in {"get", "set"}
       /\ \A f \in {"hits", "misses", "sets", "evictions"} : stats'[f] >= stats[f]
       /\ stats'.evictions <= stats'.misses
       /\ get_stats(cache', stats').total_entries = Cardinality(DOMAIN cache')
       /\ get_stats(cache', stats').total_entries
             = Cardinality({k \in CacheKeys : k \in DOMAIN cache'})]_vars

(* An entry was set, expired and was then found expired by get. *)
C34_WitnessExpiredEntryCounted ==
    /\ last.name = "get"
    /\ stats.sets = 1 /\ stats.misses = 1 /\ stats.evictions = 1
    /\ cache = EmptyCache

-----------------------------------------------------------------------------
(* The lists of a normalized report                                        *)

(* The list under a key of a normalized report, and of its source. *)
ReportList(key) == At(The(normalized).value, key)
SourceItems(key) == ListItems(The(formatted).value, key)

(* The documented default of a sub-key, where there is a fixed one. *)
SubKeyDefault(key, sub) ==
    CASE key = "applicableLaws" /\ sub = "act"       -> Str("Unknown Act")
      [] key = "applicableLaws"                      -> Str("")
      [] key = "actionPlan" /\ sub = "priority"      -> Str("Medium")
      [] key = "actionPlan" /\ sub = "timeline"      -> Str("To be determined")
      [] key = "precedents" /\ sub = "caseName"      -> Str("Unknown Case")
      [] key = "precedents" /\ sub = "citation"      -> Str("Citation not available")
      [] key = "precedents" /\ sub = "court"         -> Str("Unknown Court")
      [] key = "precedents" /\ sub = "year"          -> IntV(2024)
      [] key = "precedents" /\ sub = "relevance"     -> Str("Relevant precedent")
      [] key = "precedents" /\ sub = "distinction"   -> Null
      [] OTHER                                       -> Str("")

(* The sub-keys of the elements of a list, and for each one the other      *)
(* source key that is read when it is missing.                             *)
SubKeys(key) ==
    CASE key = "applicableLaws" -> {"act", "section", "description"}
      [] key = "actionPlan"     -> {"action", "priority", "timeline"}
      [] key = "precedents"     -> {"caseName", "citation", "court", "year", "headnote",
                                    "holding", "relevance", "distinction"}

Alias(sub) ==
    CASE sub = "act" -> {"actName"} [] sub = "section" -> {"sectionNumber"}
      [] sub = "caseName" -> {"name"} [] sub = "action" -> {"title"} [] OTHER -> {}

C38_IssuesReachCaller ==
    (WasFormatted /\ request_type = "legal_issues")
    => LET value == The(formatted).value
           response == identify_issues(value)
       IN  /\ The(formatted).via \in {"fenced", "braces"}
              => /\ response.issues = At(value, "identified_issues")
                 /\ response.confidence = At(value, "confidence_score")
           /\ The(formatted).via = "fallback"
              => /\ response.issues = At(value, "issues")
                 /\ response.confidence = At(value, "confidence")

(* What holds: the heuristically extracted issues reach the caller. *)
FallbackIssuesReachCaller ==
    (WasFormatted /\ request_type = "legal_issues" /\ The(formatted).via = "fallback")
    => /\ identify_issues(The(formatted).value).issues = At(The(formatted).value, "issues")
       /\ identify_issues(The(formatted).value).issues # ListV(<<>>)

(* C37: the classification of the report process_full_case returns is the  *)
(* label the router selected, the track whose tasks were run.              *)
C37_ReportCarriesRouterLabel ==
    (reqs["r1"].pc = "done" /\ reqs["r1"].kind = "fresh" /\ pc = "done")
    => At(reqs["r1"].value, "classification") = Str(case_type)

(* C36: a collaborator failure is never stored as an analysis: when a      *)
(* generation call of the run ended in a timeout or an error, no cache     *)
(* entry is written for the request.                                       *)
C36_FailureNeverCached ==
    (pc = "done" /\ Failed # {}) => CacheKey("full_analysis", "c1") \notin DOMAIN cache

(* What holds: a run that ended by raising leaves nothing in the cache. *)
RaisedRunNotCached ==
    pc = "raised" => cache = EmptyCache

-----------------------------------------------------------------------------
(* Cache keys and case content                                             *)

(* Both requests were answered, for the same task type. *)
BothAnswered ==
    /\ reqs["r1"].pc = "done" /\ reqs["r2"].pc = "done"
    /\ reqs["r1"].task = reqs["r2"].task

(* C35: two cases whose narratives differ never share a cache key for the  *)
(* same task type, and a request is served only an analysis made from its  *)
(* own case data.                                                          *)
C35_DifferentCasesDifferentKeys ==
    (BothAnswered /\ case_to_narrative(reqs["r1"].case) # case_to_narrative(reqs["r2"].case))
    => /\ AIService_generate_cache_key(reqs["r1"].case, reqs["r1"].task)
             # AIService_generate_cache_key(reqs["r2"].case, reqs["r2"].task)
       /\ At(reqs["r2"].value, "narrative") = case_to_narrative(reqs["r2"].case)

(* What holds: cases that differ in title, case type, the number of        *)
(* timeline events or evidence items, or the set of claims get different   *)
(* keys, and so do different task types.                                   *)
KeyFieldsSeparateCases ==
    (reqs["r1"].pc = "done" /\ reqs["r2"].pc = "done" /\ reqs["r2"].kind = "cached")
    => /\ reqs["r1"].task = reqs["r2"].task
       /\ Len(reqs["r1"].case.timeline) = Len(reqs["r2"].case.timeline)
       /\ Len(reqs["r1"].case.evidence) = Len(reqs["r2"].case.evidence)
       /\ Range(reqs["r1"].case.claims) = Range(reqs["r2"].case.claims)

=============================================================================
